---- MODULE Spec2Model ----
(***************************************************************************)
(* Model of the polyrust crypto latency-arbitrage bot:                     *)
(*   rust/src/crypto_arb.rs         PriceState, CryptoArbEngine, the feed  *)
(*   rust/src/strategy_filters.rs   the StrategyFilter chain               *)
(*   rust/src/position_tracker.rs   Position / PositionTracker             *)
(*   rust/src/bin/crypto_arb_bot.rs TradingState and the main select loop  *)
(*                                                                         *)
(* Numbers.  The program computes in f64; the model computes in exact      *)
(* rationals <<n, d>> (d > 0) over integers.  Crypto prices are integers,  *)
(* contract asks are in thousandths of a dollar (990 = 0.99), position     *)
(* sizes are in cents, time is in whole seconds.                           *)
(***************************************************************************)
EXTENDS Integers, Sequences, FiniteSets, TLC

\* ------------------------------------------------------------------------
\* Bounds of the model (not program constants)
\* ------------------------------------------------------------------------
MaxFeeds == 2
MaxClock == 2
MaxRefresh == 1
MaxMarkets == 1
MaxOps == 2

\* ------------------------------------------------------------------------
\* Program constants
\* ------------------------------------------------------------------------
MAX_BUY_PRICE == 990
MAX_ENTRY_PRICE == 600
MOMENTUM_WINDOW_SIZE == 20
MIN_HOLD_SECS == 20
MIN_POSITION_AGE_SECS == 30

Assets == {"BTC", "ETH", "SOL", "XRP"}
AssetOrder == <<"BTC", "ETH", "SOL", "XRP">>

\* ------------------------------------------------------------------------
\* Exact rational arithmetic standing in for f64
\* ------------------------------------------------------------------------
Abs(x) == IF x < 0 THEN -x ELSE x
Max2(x, y) == IF x >= y THEN x ELSE y
Min2(x, y) == IF x <= y THEN x ELSE y

RECURSIVE Gcd(_, _)
Gcd(a, b) == IF b = 0 THEN a ELSE Gcd(b, a % b)

Rat(n, d) == LET g == Gcd(Abs(n), d) IN IF n = 0 THEN <<0, 1>> ELSE <<n \div g, d \div g>>
RatAdd(a, b) == Rat(a[1] * b[2] + b[1] * a[2], a[2] * b[2])
RatMul(a, b) == Rat(a[1] * b[1], a[2] * b[2])
RatDivInt(a, k) == Rat(a[1], a[2] * k)
RatNeg(a) == <<-a[1], a[2]>>
RatAbs(a) == <<Abs(a[1]), a[2]>>
RatLT(a, b) == a[1] * b[2] < b[1] * a[2]
RatLE(a, b) == a[1] * b[2] <= b[1] * a[2]
RatGT(a, b) == RatLT(b, a)
RatGE(a, b) == RatLE(b, a)
RatMin(a, b) == IF RatLE(a, b) THEN a ELSE b
RatMax(a, b) == IF RatGE(a, b) THEN a ELSE b
Zero == <<0, 1>>

RECURSIVE RatSum(_)
RatSum(s) == IF s = <<>> THEN Zero ELSE RatAdd(s[1], RatSum(Tail(s)))

\* ------------------------------------------------------------------------
\* State
\* ------------------------------------------------------------------------
VARIABLES
  now,                  \* monotonic clock (Instant::now), seconds
  utc_start,            \* wall clock at now = 0, seconds since Monday 00:00 UTC
  price,                \* PriceState.{btc,eth,sol,xrp}_price
  interval_start_price, \* PriceState.*_interval_start_price
  price_history,        \* PriceState.*_price_history, newest last
  market,               \* CryptoArbEngine.{btc,eth,sol,xrp}_market
  legacy_market,        \* CryptoArbEngine.market (single-market mode)
  engine_cfg,           \* max_position_usd, min_position_usd, use_momentum, use_edge_check
  mock_trading,         \* Config.mock_trading
  open_positions,       \* TradingState.open_positions
  trades_executed,      \* TradingState.trades_executed
  last_trade_time,      \* TradingState.last_trade_time (Option)
  closed,               \* every position check_exits_multi has returned, with the time of the check
  main_pc,              \* position of the main task in its select loop
  pending,              \* signals of the current tick not yet handled
  in_flight,            \* the signal whose order is awaited (Option)
  last_exec,            \* what the venue answered to the last order
  signals,              \* Some(what check_all_opportunities returned), None once its inputs changed
  exits,                \* Some(what check_exits_multi returned), None once its inputs changed
  last_signal,          \* Some(what check_opportunity returned), None once its inputs changed
  positions,            \* PositionTracker.positions: token id -> Option<Position>
  to_sell,              \* Some(what check_stop_losses returned), None once its inputs changed
  feed_pc,              \* position of each feed task around its write of a sample
  feed_price,           \* the parsed price a feed task is about to write
  reader_pc,            \* position of the main task around a read of the price state
  reader_job,           \* what the main task reads the price state for
  rw_writer,            \* RwLock<PriceState>: the task holding the write guard (Option)
  rw_readers,           \* RwLock<PriceState>: number of read guards held
  rw_queue,             \* RwLock<PriceState>: the waiting acquisitions, oldest first
  nfeeds, nclock, nrefresh, nops, \* event counters bounding the model
  recorded,             \* every sample add_price_sample was given, per asset, in arrival order
  last_velocity,        \* Some(what velocity_pct returned), None once its inputs changed
  last_momentum,        \* Some(what momentum returned), None once its inputs changed
  status,               \* Some(what get_status_analysis reported), None once its inputs changed
  fills,                \* per token, the fills (and sales) of the position it has now, oldest first
  map_readers,          \* RwLock of the position map: number of read guards held
  csl_pc,               \* position of a check_stop_losses call around its price fetch
  csl_todo,             \* tokens of the map check_stop_losses has not visited yet
  csl_cur,              \* the token whose price is being fetched (Option)
  csl_quotes,           \* what the price fetcher answered so far, per token
  csl_sells,            \* the to_sell list built so far (as a set)
  mut_pc,               \* position of a caller of add/remove/reduce_position
  mut_op,               \* the call waiting for the write guard of the position map
  filter_call           \* a StrategyFilter's configuration, the arguments of its check_all and what the call returned (Option)

cfgVars == <<utc_start, mock_trading, engine_cfg>>
callVars == <<filter_call>>
priceVars == <<price, interval_start_price, price_history, recorded>>
marketVars == <<market, legacy_market>>
tradeVars == <<open_positions, trades_executed, last_trade_time, closed>>
loopVars == <<main_pc, pending, in_flight, last_exec>>
outVars == <<signals, exits, last_signal>>
trackerVars == <<positions, to_sell, fills>>
lockVars == <<feed_pc, feed_price, reader_pc, reader_job, rw_writer, rw_readers, rw_queue>>
countVars == <<nfeeds, nclock, nrefresh, nops>>
sigVars == <<last_velocity, last_momentum, status>>
mapVars == <<map_readers, csl_pc, csl_todo, csl_cur, csl_quotes, csl_sells, mut_pc, mut_op>>
vars == <<now, cfgVars, callVars, priceVars, marketVars, tradeVars, loopVars, outVars,
          trackerVars, lockVars, countVars, sigVars, mapVars>>

\* Option<T>: None is the empty sequence, Some(x) the one-element sequence
None == <<>>
Some(x) == <<x>>

\* ------------------------------------------------------------------------
\* PriceState (crypto_arb.rs)
\* ------------------------------------------------------------------------

\* PriceState::price_change_pct / {btc,eth,sol,xrp}_change_pct
price_change_pct(asset) ==
  IF interval_start_price[asset] = 0 THEN Zero
  ELSE Rat((price[asset] - interval_start_price[asset]) * 100, interval_start_price[asset])

\* PriceState::current_price
current_price(asset) == price[asset]

\* PriceState::is_up
is_up(asset) == price[asset] > interval_start_price[asset]

\* add_price_sample that makes room by dropping the sample it was given
add_price_sample_drops_new(history, p, t) ==
  LET pushed == Append(history, [p |-> p, t |-> t])
  IN IF Len(pushed) > MOMENTUM_WINDOW_SIZE THEN SubSeq(pushed, 1, MOMENTUM_WINDOW_SIZE)
     ELSE pushed

\* PriceState::add_price_sample on one asset's history
add_price_sample(history, p, t) ==
  LET pushed == Append(history, [p |-> p, t |-> t])
  IN IF Len(pushed) > MOMENTUM_WINDOW_SIZE THEN Tail(pushed) ELSE pushed

\* the first sample of the history whose time is >= cutoff (0 if there is none)
RECURSIVE FirstInWindow(_, _)
FirstInWindow(history, cutoff) ==
  IF history = <<>> THEN 0
  ELSE IF history[1].t >= cutoff THEN 1
  ELSE LET r == FirstInWindow(Tail(history), cutoff) IN IF r = 0 THEN 0 ELSE r + 1

\* velocity_pct that reports 0 when no sample lies inside the window
velocity_pct_no_fallback(history, t, window_secs) ==
  IF Len(history) < 2 THEN Zero
  ELSE LET cutoff == t - window_secs
           i == FirstInWindow(history, cutoff)
           start_price == IF i # 0 THEN history[i].p ELSE 0
           cur == history[Len(history)].p
       IN IF start_price = 0 THEN Zero ELSE Rat((cur - start_price) * 100, start_price)

\* velocity_pct without its guard on a start price of 0
velocity_pct_unguarded(history, t, window_secs) ==
  IF Len(history) < 2 THEN Zero
  ELSE LET cutoff == t - window_secs
           i == FirstInWindow(history, cutoff)
           start_price == IF i # 0 THEN history[i].p ELSE history[1].p
           cur == history[Len(history)].p
       IN Rat((cur - start_price) * 100, start_price)

\* PriceState::velocity_pct
velocity_pct(history, t, window_secs) ==
  IF Len(history) < 2 THEN Zero
  ELSE LET cutoff == t - window_secs
           i == FirstInWindow(history, cutoff)
           start_price == IF i # 0 THEN history[i].p ELSE history[1].p
           cur == history[Len(history)].p
       IN IF start_price = 0 THEN Zero ELSE Rat((cur - start_price) * 100, start_price)

\* the per-step percentage changes of PriceState::momentum
RECURSIVE Changes(_)
Changes(history) ==
  IF Len(history) < 2 THEN <<>>
  ELSE LET prev == history[1].p
           curr == history[2].p
       IN IF prev > 0 THEN <<Rat((curr - prev) * 100, prev)>> \o Changes(Tail(history))
          ELSE Changes(Tail(history))

RECURSIVE CountIf(_, _)
CountIf(s, positive) ==
  IF s = <<>> THEN 0
  ELSE (IF (positive /\ s[1][1] > 0) \/ (~positive /\ s[1][1] < 0) THEN 1 ELSE 0)
       + CountIf(Tail(s), positive)

\* MomentumSignal::default
MomentumDefault ==
  [score |-> Zero, is_accelerating |-> FALSE, consistency |-> Zero, direction |-> "Neutral"]

\* momentum that already answers on two samples
momentum_from_two_samples(history) ==
  IF Len(history) < 2 THEN MomentumDefault
  ELSE LET changes == Changes(history)
           n == Len(changes)
       IN IF n = 0 THEN MomentumDefault
          ELSE LET avg_change == RatDivInt(RatSum(changes), n)
                   mid == n \div 2
                   recent_avg == IF mid < n
                                 THEN RatDivInt(RatSum(SubSeq(changes, mid + 1, n)), n - mid)
                                 ELSE avg_change
                   older_avg == IF mid > 0
                                THEN RatDivInt(RatSum(SubSeq(changes, 1, mid)), mid)
                                ELSE avg_change
                   is_accelerating == IF avg_change[1] > 0 THEN RatGT(recent_avg, older_avg)
                                      ELSE IF avg_change[1] < 0 THEN RatLT(recent_avg, older_avg)
                                      ELSE FALSE
                   positive_count == CountIf(changes, TRUE)
                   negative_count == CountIf(changes, FALSE)
                   consistency == Rat(Max2(positive_count, negative_count), n)
                   normalized == RatMax(<<-1, 1>>, RatMin(<<1, 1>>, RatMul(avg_change, <<10, 1>>)))
               IN [score |-> normalized,
                   is_accelerating |-> is_accelerating,
                   consistency |-> consistency,
                   direction |-> IF RatGT(avg_change, <<1, 1000>>) THEN "Up"
                                 ELSE IF RatLT(avg_change, <<-1, 1000>>) THEN "Down"
                                 ELSE "Neutral"]

\* momentum without the dead zone around a mean change of 0
momentum_no_dead_zone(history) ==
  IF Len(history) < 3 THEN MomentumDefault
  ELSE LET changes == Changes(history)
           n == Len(changes)
       IN IF n = 0 THEN MomentumDefault
          ELSE LET avg_change == RatDivInt(RatSum(changes), n)
                   mid == n \div 2
                   recent_avg == IF mid < n
                                 THEN RatDivInt(RatSum(SubSeq(changes, mid + 1, n)), n - mid)
                                 ELSE avg_change
                   older_avg == IF mid > 0
                                THEN RatDivInt(RatSum(SubSeq(changes, 1, mid)), mid)
                                ELSE avg_change
                   is_accelerating == IF avg_change[1] > 0 THEN RatGT(recent_avg, older_avg)
                                      ELSE IF avg_change[1] < 0 THEN RatLT(recent_avg, older_avg)
                                      ELSE FALSE
                   positive_count == CountIf(changes, TRUE)
                   negative_count == CountIf(changes, FALSE)
                   consistency == Rat(Max2(positive_count, negative_count), n)
                   normalized == RatMax(<<-1, 1>>, RatMin(<<1, 1>>, RatMul(avg_change, <<10, 1>>)))
               IN [score |-> normalized,
                   is_accelerating |-> is_accelerating,
                   consistency |-> consistency,
                   direction |-> IF RatGT(avg_change, Zero) THEN "Up"
                                 ELSE IF RatLT(avg_change, Zero) THEN "Down"
                                 ELSE "Neutral"]

\* PriceState::momentum
momentum(history) ==
  IF Len(history) < 3 THEN MomentumDefault
  ELSE LET changes == Changes(history)
           n == Len(changes)
       IN IF n = 0 THEN MomentumDefault
          ELSE LET avg_change == RatDivInt(RatSum(changes), n)
                   mid == n \div 2
                   recent_avg == IF mid < n
                                 THEN RatDivInt(RatSum(SubSeq(changes, mid + 1, n)), n - mid)
                                 ELSE avg_change
                   older_avg == IF mid > 0
                                THEN RatDivInt(RatSum(SubSeq(changes, 1, mid)), mid)
                                ELSE avg_change
                   is_accelerating == IF avg_change[1] > 0 THEN RatGT(recent_avg, older_avg)
                                      ELSE IF avg_change[1] < 0 THEN RatLT(recent_avg, older_avg)
                                      ELSE FALSE
                   positive_count == CountIf(changes, TRUE)
                   negative_count == CountIf(changes, FALSE)
                   consistency == Rat(Max2(positive_count, negative_count), n)
                   normalized == RatMax(<<-1, 1>>, RatMin(<<1, 1>>, RatMul(avg_change, <<10, 1>>)))
               IN [score |-> normalized,
                   is_accelerating |-> is_accelerating,
                   consistency |-> consistency,
                   direction |-> IF RatGT(avg_change, <<1, 1000>>) THEN "Up"
                                 ELSE IF RatLT(avg_change, <<-1, 1000>>) THEN "Down"
                                 ELSE "Neutral"]

\* MomentumSignal::is_strong
is_strong(m) == RatGT(RatAbs(m.score), <<3, 10>>) /\ RatGT(m.consistency, <<6, 10>>)

\* MomentumSignal::supports_direction
supports_direction(m, up) ==
  CASE m.direction = "Up" -> up
    [] m.direction = "Down" -> ~up
    [] OTHER -> FALSE

\* ------------------------------------------------------------------------
\* Strategy filters (strategy_filters.rs)
\* ------------------------------------------------------------------------
Pass == <<"Pass">>
Fail(reason) == <<"Fail", reason>>

\* FilterResult::passed
passed(result) == result = Pass

\* StrategyConfig built by CryptoArbEngine::new (defaults of strategy_filters.rs)
EngineStrategyConfig ==
  [enable_momentum |-> TRUE, enable_orderbook |-> TRUE,
   enable_volume |-> FALSE, enable_time |-> TRUE,
   min_score |-> <<4, 10>>, min_consistency |-> <<8, 10>>, require_acceleration |-> TRUE,
   min_depth_usd |-> 500, check_both_sides |-> FALSE,
   surge_multiplier |-> 2, min_current_volume |-> 1000,
   start_hour_est |-> 9, end_hour_est |-> 16, allow_weekends |-> FALSE]

\* the momentum filter with strict comparisons, which turns away a reading
\* exactly at the minimum score or consistency
MomentumFilterCheckStrict(cfg, momentum_score, consistency, is_accelerating, direction_matches) ==
  IF ~direction_matches THEN Fail("direction")
  ELSE IF RatLE(RatAbs(momentum_score), cfg.min_score) THEN Fail("too weak")
  ELSE IF RatLE(consistency, cfg.min_consistency) THEN Fail("not consistent")
  ELSE IF cfg.require_acceleration /\ ~is_accelerating THEN Fail("decelerating")
  ELSE Pass
\* SmartMomentumFilter::check
MomentumFilterCheck(cfg, momentum_score, consistency, is_accelerating, direction_matches) ==
  IF ~direction_matches THEN Fail("direction")
  ELSE IF RatLT(RatAbs(momentum_score), cfg.min_score) THEN Fail("too weak")
  ELSE IF RatLT(consistency, cfg.min_consistency) THEN Fail("not consistent")
  ELSE IF cfg.require_acceleration /\ ~is_accelerating THEN Fail("decelerating")
  ELSE Pass

\* OrderbookDepthFilter::check
OrderbookFilterCheck(cfg, depth, buying_yes) ==
  LET relevant_depth == IF buying_yes THEN depth.ask_depth_usd ELSE depth.bid_depth_usd
      other_side == IF buying_yes THEN depth.bid_depth_usd ELSE depth.ask_depth_usd
  IN IF relevant_depth < cfg.min_depth_usd THEN Fail("insufficient depth")
     ELSE IF cfg.check_both_sides /\ 2 * other_side < cfg.min_depth_usd THEN Fail("other side thin")
     ELSE Pass

\* VolumeSurgeFilter::check
VolumeFilterCheck(cfg, volume) ==
  IF volume.current_volume < cfg.min_current_volume THEN Fail("volume too low")
  ELSE IF volume.average_volume > 0
          /\ volume.current_volume < cfg.surge_multiplier * volume.average_volume
       THEN Fail("no surge")
  ELSE Pass

\* TimeOfDayFilter::check; time is in seconds since a Monday 00:00 UTC
TimeFilterCheck(cfg, time) ==
  LET est_time == time - 5 * 3600
      hour == (est_time \div 3600) % 24
      weekday == (est_time \div 86400) % 7
  IN IF hour < cfg.start_hour_est \/ hour >= cfg.end_hour_est THEN Fail("outside hours")
     ELSE IF ~cfg.allow_weekends /\ weekday \in {5, 6} THEN Fail("weekend")
     ELSE Pass

\* StrategyFilter::check_all; orderbook and volume are Option (None when absent)
check_all(cfg, momentum_score, consistency, is_accelerating, direction_matches, orderbook, volume, time, buying_yes) ==
  [momentum |-> IF cfg.enable_momentum
                THEN MomentumFilterCheck(cfg, momentum_score, consistency,
                                         is_accelerating, direction_matches)
                ELSE None,
   orderbook |-> IF cfg.enable_orderbook
                 THEN (IF orderbook = None THEN None
                       ELSE OrderbookFilterCheck(cfg, orderbook[1], buying_yes))
                 ELSE None,
   volume |-> IF cfg.enable_volume
              THEN (IF volume = None THEN None ELSE VolumeFilterCheck(cfg, volume[1]))
              ELSE None,
   time |-> IF cfg.enable_time THEN TimeFilterCheck(cfg, time) ELSE None]

\* all_passed that also wants every filter to have been evaluated
all_passed_needs_outcomes(results) ==
  \A f \in {"momentum", "orderbook", "volume", "time"} :
     results[f] # None /\ passed(results[f])
\* FilterResults::all_passed
all_passed(results) ==
  \A f \in {"momentum", "orderbook", "volume", "time"} :
     results[f] = None \/ passed(results[f])

\* failure_reasons that lists the time filter's reason first
failure_reasons_time_first(results) ==
  (IF results.time # None /\ ~passed(results.time)
   THEN <<<<"Time", results.time[2]>>>> ELSE <<>>)
  \o (IF results.momentum # None /\ ~passed(results.momentum)
      THEN <<<<"Momentum", results.momentum[2]>>>> ELSE <<>>)
  \o (IF results.orderbook # None /\ ~passed(results.orderbook)
      THEN <<<<"Orderbook", results.orderbook[2]>>>> ELSE <<>>)
  \o (IF results.volume # None /\ ~passed(results.volume)
      THEN <<<<"Volume", results.volume[2]>>>> ELSE <<>>)
\* FilterResults::failure_reasons: "<Name>: <reason>" is the pair <<Name, reason>>
failure_reasons(results) ==
  (IF results.momentum # None /\ ~passed(results.momentum)
   THEN <<<<"Momentum", results.momentum[2]>>>> ELSE <<>>)
  \o (IF results.orderbook # None /\ ~passed(results.orderbook)
      THEN <<<<"Orderbook", results.orderbook[2]>>>> ELSE <<>>)
  \o (IF results.volume # None /\ ~passed(results.volume)
      THEN <<<<"Volume", results.volume[2]>>>> ELSE <<>>)
  \o (IF results.time # None /\ ~passed(results.time)
      THEN <<<<"Time", results.time[2]>>>> ELSE <<>>)

\* ------------------------------------------------------------------------
\* CryptoArbEngine (crypto_arb.rs)
\* ------------------------------------------------------------------------

\* floor of a non-negative rational (the `as u8` casts)
Floor(r) == r[1] \div r[2]

\* velocity thresholds of check_opportunity_for_asset, in percent
min_velocity(asset) ==
  CASE asset = "BTC" -> <<2, 100>>
    [] asset = "ETH" -> <<3, 100>>
    [] asset = "SOL" -> <<4, 100>>
    [] asset = "XRP" -> <<4, 100>>

\* the velocity choice that only ever looks at the 5 s window
StrongerVelocityOnly5s(history, t) == velocity_pct(history, t, 5)

\* the stronger of the 3 s and 5 s velocities (the 5 s one on a tie)
StrongerVelocity(history, t) ==
  LET velocity_5s == velocity_pct(history, t, 5)
      velocity_3s == velocity_pct(history, t, 3)
  IN IF RatGT(RatAbs(velocity_3s), RatAbs(velocity_5s)) THEN velocity_3s ELSE velocity_5s

\* the price gate written with >=, which also turns away an ask of exactly 0.99
MaxBuyPriceRejectedInclusive(market_ask) == market_ask >= MAX_BUY_PRICE

\* the global price gate of both evaluations: TRUE when the ask is rejected
MaxBuyPriceRejected(market_ask) == market_ask > MAX_BUY_PRICE

\* the mean-reversion gate written with >=, which also turns away an ask of exactly 0.60
MaxEntryPriceRejectedInclusive(market_ask) == market_ask >= MAX_ENTRY_PRICE
\* the mean-reversion gate of check_opportunity_for_asset: TRUE when the ask is rejected
MaxEntryPriceRejected(market_ask) == market_ask > MAX_ENTRY_PRICE

\* CryptoArbEngine::check_opportunity_for_asset (velocity mode)
check_opportunity_for_asset(asset) ==
  IF market[asset] = None THEN None
  ELSE IF current_price(asset) = 0 THEN None
  ELSE LET m == market[asset][1]
           velocity == StrongerVelocity(price_history[asset], now)
           abs_velocity == RatAbs(velocity)
       IN IF RatLT(abs_velocity, min_velocity(asset)) THEN None
          ELSE LET up == velocity[1] > 0
                   market_ask == IF up THEN m.yes_ask ELSE m.no_ask
               IN IF MaxBuyPriceRejected(market_ask) THEN None
                  ELSE IF MaxEntryPriceRejected(market_ask) THEN None
                  ELSE Some([bet_up |-> up,
                        token_id |-> IF up THEN m.yes_token_id ELSE m.no_token_id,
                        buy_price |-> market_ask,
                        edge_pct |-> RatMul(abs_velocity, <<10, 1>>),
                        crypto_price |-> current_price(asset),
                        asset |-> asset,
                        price_change_pct |-> velocity,
                        confidence |-> Floor(RatMax(<<30, 1>>,
                                         RatMin(<<95, 1>>, RatMul(abs_velocity, <<500, 1>>)))),
                        recommended_size_usd |-> <<engine_cfg.max_position_usd, 1>>])

\* a collection that pushes each asset's signal twice
RECURSIVE CollectSignalsRepeating(_)
CollectSignalsRepeating(order) ==
  IF order = <<>> THEN <<>>
  ELSE LET s == check_opportunity_for_asset(order[1])
       IN s \o s \o CollectSignalsRepeating(Tail(order))
\* CryptoArbEngine::check_all_opportunities: BTC, ETH, SOL, XRP in that order
RECURSIVE CollectSignals(_)
CollectSignals(order) ==
  IF order = <<>> THEN <<>>
  ELSE LET s == check_opportunity_for_asset(order[1])
       IN s \o CollectSignals(Tail(order))

check_all_opportunities == CollectSignals(AssetOrder)

\* CryptoArbEngine::get_status_analysis, the loop over the assets: acc holds
\* the assets reported without price data, all_below_threshold, highest_pct
\* and closest_asset
RECURSIVE StatusLoop(_, _)
StatusLoop(order, acc) ==
  IF order = <<>> THEN acc
  ELSE LET asset == order[1]
           threshold == CASE asset = "BTC" -> <<2, 100>> [] asset = "ETH" -> <<3, 100>>
                          [] asset = "SOL" -> <<4, 100>> [] asset = "XRP" -> <<4, 100>>
       IN IF current_price(asset) = 0
          THEN StatusLoop(Tail(order), [acc EXCEPT !.no_data = @ \cup {asset}])
          ELSE LET velocity_5s == velocity_pct(price_history[asset], now, 5)
                   velocity_3s == velocity_pct(price_history[asset], now, 3)
                   velocity == IF RatGT(RatAbs(velocity_3s), RatAbs(velocity_5s))
                               THEN velocity_3s ELSE velocity_5s
                   abs_velocity == RatAbs(velocity)
                   pct_of_threshold ==
                     RatMul(Rat(abs_velocity[1] * threshold[2], abs_velocity[2] * threshold[1]),
                            <<100, 1>>)
                   higher == RatGT(pct_of_threshold, acc.highest_pct)
               IN StatusLoop(Tail(order),
                    [acc EXCEPT !.highest_pct = IF higher THEN pct_of_threshold ELSE @,
                                !.closest_asset = IF higher THEN asset ELSE @,
                                !.all_below_threshold = @ /\ ~RatGE(abs_velocity, threshold)])

\* CryptoArbEngine::get_status_analysis: the parts of the report that carry
\* the verdict and the assets listed with "No price data available"
get_status_analysis ==
  LET acc == StatusLoop(AssetOrder, [no_data |-> {}, all_below_threshold |-> TRUE,
                                     highest_pct |-> Zero, closest_asset |-> "None"])
  IN [no_data |-> acc.no_data,
      closest_asset |-> acc.closest_asset,
      highest_pct |-> acc.highest_pct,
      verdict |-> IF acc.all_below_threshold
                  THEN (IF RatLT(acc.highest_pct, <<40, 1>>) THEN "VERY QUIET"
                        ELSE "MODERATELY QUIET")
                  ELSE "SIGNALS DETECTED"]

RatDiv(a, b) == Rat(a[1] * b[2], a[2] * b[1])
RatSub(a, b) == RatAdd(a, RatNeg(b))

\* minimum price move table of check_opportunity, in percent
min_move(asset, interval_minutes) ==
  CASE asset = "BTC" -> (CASE interval_minutes = 5 -> <<2, 100>>
                           [] interval_minutes = 15 -> <<4, 100>>
                           [] interval_minutes = 60 -> <<8, 100>>
                           [] interval_minutes = 240 -> <<12, 100>>
                           [] OTHER -> <<6, 100>>)
    [] asset = "ETH" -> (CASE interval_minutes = 5 -> <<5, 100>>
                           [] interval_minutes = 15 -> <<10, 100>>
                           [] interval_minutes = 60 -> <<20, 100>>
                           [] interval_minutes = 240 -> <<30, 100>>
                           [] OTHER -> <<15, 100>>)
    [] OTHER -> (CASE interval_minutes = 5 -> <<4, 100>>
                   [] interval_minutes = 15 -> <<8, 100>>
                   [] interval_minutes = 60 -> <<15, 100>>
                   [] interval_minutes = 240 -> <<25, 100>>
                   [] OTHER -> <<10, 100>>)

\* the minimum-move gate written with <=, which also turns away a change of
\* exactly the threshold
MinMoveRejectedInclusive(abs_change, asset, interval_minutes) ==
  RatLE(abs_change, min_move(asset, interval_minutes))

\* the minimum-move gate of check_opportunity: TRUE when the change is rejected
MinMoveRejected(abs_change, asset, interval_minutes) ==
  RatLT(abs_change, min_move(asset, interval_minutes))

prob_multiplier(interval_minutes) ==
  CASE interval_minutes = 5 -> 8
    [] interval_minutes = 15 -> 5
    [] interval_minutes = 60 -> 3
    [] interval_minutes = 240 -> 2
    [] OTHER -> 4

\* a minimum edge that is the 5-minute one for every window
min_edge_flat(interval_minutes) == <<3, 10>>
min_edge(interval_minutes) ==
  CASE interval_minutes = 5 -> <<3, 10>>
    [] interval_minutes = 15 -> <<5, 10>>
    [] interval_minutes = 60 -> <<1, 1>>
    [] interval_minutes = 240 -> <<15, 10>>
    [] OTHER -> <<5, 10>>

confidence_multiplier(interval_minutes) ==
  CASE interval_minutes = 5 -> 30
    [] interval_minutes = 15 -> 20
    [] interval_minutes = 60 -> 15
    [] interval_minutes = 240 -> 10
    [] OTHER -> 20

\* the momentum gate of check_opportunity: TRUE when the evaluation is skipped
MomentumRejected(m, up) ==
  \/ ~supports_direction(m, up)
  \/ (m.consistency[1] > 0 /\ ~m.is_accelerating /\ RatLT(RatAbs(m.score), <<5, 10>>))

\* the sizing without its lower clamp
RecommendedSizeNoFloor(max_position_usd, min_position_usd, edge_pct, market_ask, size_multiplier) ==
  LET kelly_fraction == RatDiv(RatDivInt(edge_pct, 100), <<1000 - market_ask, 1000>>)
      raw == RatMul(RatMul(<<max_position_usd, 1>>, RatMin(kelly_fraction, <<1, 4>>)),
                    size_multiplier)
  IN RatMin(raw, <<max_position_usd, 1>>)

\* Kelly-lite sizing of check_opportunity, in cents
RecommendedSize(max_position_usd, min_position_usd, edge_pct, market_ask, size_multiplier) ==
  LET kelly_fraction == RatDiv(RatDivInt(edge_pct, 100), <<1000 - market_ask, 1000>>)
      raw == RatMul(RatMul(<<max_position_usd, 1>>, RatMin(kelly_fraction, <<1, 4>>)),
                    size_multiplier)
  IN RatMin(RatMax(raw, <<min_position_usd, 1>>), <<max_position_usd, 1>>)

\* CryptoArbEngine::check_opportunity (edge mode, on the legacy single market)
check_opportunity ==
  IF legacy_market = None THEN None
  ELSE LET m == legacy_market[1]
           asset == m.asset
       IN IF price[asset] = 0 \/ interval_start_price[asset] = 0 THEN None
          ELSE LET change_pct == price_change_pct(asset)
                   abs_change == RatAbs(change_pct)
               IN IF MinMoveRejected(abs_change, asset, m.interval_minutes) THEN None
                  ELSE LET mom == momentum(price_history[asset])
                           up == is_up(asset)
                           market_ask == IF up THEN m.yes_ask ELSE m.no_ask
                           strong == is_strong(mom)
                           momentum_boost == IF strong /\ mom.is_accelerating THEN <<12, 10>>
                                             ELSE IF strong THEN <<11, 10>> ELSE <<1, 1>>
                           implied_prob ==
                             RatAdd(<<1, 2>>,
                               RatDivInt(RatMin(RatMul(RatMul(abs_change,
                                           <<prob_multiplier(m.interval_minutes), 1>>),
                                           momentum_boost), <<45, 1>>), 100))
                           edge_pct == RatMul(RatSub(implied_prob, Rat(market_ask, 1000)),
                                              <<100, 1>>)
                           momentum_confidence_boost ==
                             IF strong THEN RatAdd(<<1, 1>>, RatDivInt(mom.consistency, 2))
                             ELSE <<1, 1>>
                           confidence ==
                             Floor(RatMin(RatMul(RatMul(abs_change,
                                     <<confidence_multiplier(m.interval_minutes), 1>>),
                                     momentum_confidence_boost), <<100, 1>>))
                           size_multiplier == IF strong /\ mom.is_accelerating THEN <<3, 2>>
                                              ELSE <<1, 1>>
                       IN IF engine_cfg.use_momentum /\ MomentumRejected(mom, up) THEN None
                          ELSE IF MaxBuyPriceRejected(market_ask) THEN None
                          ELSE IF engine_cfg.use_edge_check
                                  /\ RatLT(edge_pct, min_edge(m.interval_minutes)) THEN None
                          ELSE Some([bet_up |-> up,
                                     token_id |-> IF up THEN m.yes_token_id ELSE m.no_token_id,
                                     buy_price |-> market_ask,
                                     edge_pct |-> edge_pct,
                                     crypto_price |-> price[asset],
                                     asset |-> asset,
                                     price_change_pct |-> change_pct,
                                     confidence |-> confidence,
                                     recommended_size_usd |->
                                       RecommendedSize(engine_cfg.max_position_usd,
                                                       engine_cfg.min_position_usd,
                                                       edge_pct, market_ask, size_multiplier)])

\* ------------------------------------------------------------------------
\* TradingState (bin/crypto_arb_bot.rs)
\* ------------------------------------------------------------------------
TAKE_PROFIT_PCT == 8
STOP_LOSS_PCT == -6

\* MAX_HOLD_MULTIPLIER = 0.6, the share of the interval announced as the
\* time exit when a trade is placed
MAX_HOLD_MULTIPLIER == <<6, 10>>

\* TradingState.min_trade_interval, seconds
min_trade_interval == 30

\* TradingState::new
TradingStateNew == [open_positions |-> <<>>, trades_executed |-> 0, last_trade_time |-> None]

\* TradingState::record_trade
record_trade(ts, signal, interval_minutes, t) ==
  [open_positions |-> Append(ts.open_positions,
                       [token_id |-> signal.token_id,
                        size_usd |-> signal.recommended_size_usd,
                        entry_price |-> signal.buy_price,
                        direction_up |-> signal.bet_up,
                        entry_time |-> t,
                        entry_crypto_price |-> signal.crypto_price,
                        interval_minutes |-> interval_minutes,
                        asset |-> signal.asset]),
   trades_executed |-> ts.trades_executed + 1,
   last_trade_time |-> Some(t)]

\* can_trade_asset that forgets to look at the open positions
can_trade_asset_always(pos_list, asset) == TRUE

\* TradingState::can_trade_asset
can_trade_asset(pos_list, asset) ==
  \A i \in 1..Len(pos_list) : pos_list[i].asset # asset

\* effective P&L of a position in check_exits_multi, in percent
effective_pnl_pct(pos, current_crypto_price) ==
  LET crypto_change_pct ==
        Rat((current_crypto_price - pos.entry_crypto_price) * 100, pos.entry_crypto_price)
  IN IF pos.direction_up THEN RatMul(crypto_change_pct, <<2, 1>>)
     ELSE RatMul(RatNeg(crypto_change_pct), <<2, 1>>)

\* the exit decision without the minimum hold time
ExitDecisionNoMinHold(pos, current_crypto_price, t) ==
  LET hold_time == t - pos.entry_time
      max_hold_time == (pos.interval_minutes * 60 * 8) \div 10
      pnl == effective_pnl_pct(pos, current_crypto_price)
  IN IF RatGE(pnl, <<TAKE_PROFIT_PCT, 1>>) THEN "TAKE PROFIT"
     ELSE IF RatLE(pnl, <<STOP_LOSS_PCT, 1>>) THEN "STOP LOSS"
     ELSE IF hold_time >= max_hold_time THEN "TIME EXIT"
     ELSE "KEEP"

\* the exit decision that looks at the hold-time limit before the P&L
ExitDecisionTimeFirst(pos, current_crypto_price, t) ==
  LET hold_time == t - pos.entry_time
      max_hold_time == (pos.interval_minutes * 60 * 8) \div 10
      pnl == effective_pnl_pct(pos, current_crypto_price)
  IN IF hold_time < MIN_HOLD_SECS THEN "HOLD"
     ELSE IF hold_time >= max_hold_time THEN "TIME EXIT"
     ELSE IF RatGE(pnl, <<TAKE_PROFIT_PCT, 1>>) THEN "TAKE PROFIT"
     ELSE IF RatLE(pnl, <<STOP_LOSS_PCT, 1>>) THEN "STOP LOSS"
     ELSE "KEEP"
\* the exit decision without the hold-time limit
ExitDecisionNoTimeExit(pos, current_crypto_price, t) ==
  LET hold_time == t - pos.entry_time
      pnl == effective_pnl_pct(pos, current_crypto_price)
  IN IF hold_time < MIN_HOLD_SECS THEN "HOLD"
     ELSE IF RatGE(pnl, <<TAKE_PROFIT_PCT, 1>>) THEN "TAKE PROFIT"
     ELSE IF RatLE(pnl, <<STOP_LOSS_PCT, 1>>) THEN "STOP LOSS"
     ELSE "KEEP"
\* the decision check_exits_multi takes for one position
ExitDecision(pos, current_crypto_price, t) ==
  LET hold_time == t - pos.entry_time
      max_hold_time == (pos.interval_minutes * 60 * 8) \div 10
      pnl == effective_pnl_pct(pos, current_crypto_price)
  IN IF hold_time < MIN_HOLD_SECS THEN "HOLD"
     ELSE IF RatGE(pnl, <<TAKE_PROFIT_PCT, 1>>) THEN "TAKE PROFIT"
     ELSE IF RatLE(pnl, <<STOP_LOSS_PCT, 1>>) THEN "STOP LOSS"
     ELSE IF hold_time >= max_hold_time THEN "TIME EXIT"
     ELSE "KEEP"

\* the drain loop that `continue`s on a young position without keeping it
RECURSIVE ExitLoopDropsHeld(_, _, _, _, _)
ExitLoopDropsHeld(pos_list, prices, t, exitsAcc, remaining) ==
  IF pos_list = <<>> THEN [exits |-> exitsAcc, remaining |-> remaining]
  ELSE LET pos == pos_list[1]
           d == ExitDecision(pos, prices[pos.asset], t)
       IN IF d = "HOLD"
          THEN ExitLoopDropsHeld(Tail(pos_list), prices, t, exitsAcc, remaining)
          ELSE IF d = "KEEP"
          THEN ExitLoopDropsHeld(Tail(pos_list), prices, t, exitsAcc, Append(remaining, pos))
          ELSE ExitLoopDropsHeld(Tail(pos_list), prices, t,
                        Append(exitsAcc, [pos |-> pos, reason |-> d,
                                          pnl_pct |-> effective_pnl_pct(pos, prices[pos.asset])]),
                        remaining)

\* the drain loop that returns a position and keeps it open as well
RECURSIVE ExitLoopKeepsExited(_, _, _, _, _)
ExitLoopKeepsExited(pos_list, prices, t, exitsAcc, remaining) ==
  IF pos_list = <<>> THEN [exits |-> exitsAcc, remaining |-> remaining]
  ELSE LET pos == pos_list[1]
           d == ExitDecision(pos, prices[pos.asset], t)
       IN IF d \in {"HOLD", "KEEP"}
          THEN ExitLoopKeepsExited(Tail(pos_list), prices, t, exitsAcc, Append(remaining, pos))
          ELSE ExitLoopKeepsExited(Tail(pos_list), prices, t,
                        Append(exitsAcc, [pos |-> pos, reason |-> d,
                                          pnl_pct |-> effective_pnl_pct(pos, prices[pos.asset])]),
                        Append(remaining, pos))
\* the drain loop of check_exits_multi
RECURSIVE ExitLoop(_, _, _, _, _)
ExitLoop(pos_list, prices, t, exitsAcc, remaining) ==
  IF pos_list = <<>> THEN [exits |-> exitsAcc, remaining |-> remaining]
  ELSE LET pos == pos_list[1]
           d == ExitDecision(pos, prices[pos.asset], t)
       IN IF d \in {"HOLD", "KEEP"}
          THEN ExitLoop(Tail(pos_list), prices, t, exitsAcc, Append(remaining, pos))
          ELSE ExitLoop(Tail(pos_list), prices, t,
                        Append(exitsAcc, [pos |-> pos, reason |-> d,
                                          pnl_pct |-> effective_pnl_pct(pos, prices[pos.asset])]),
                        remaining)

\* TradingState::check_exits_multi
check_exits_multi(pos_list, prices, t) == ExitLoop(pos_list, prices, t, <<>>, <<>>)

\* execute_trade: Ok(..) unless building or posting the order itself failed;
\* the HTTP status of the venue's answer is only formatted into the Ok string
execute_trade(response) ==
  IF response = "transport_error" THEN "Err" ELSE "Ok"

\* engine.get_market(asset).interval_minutes, unwrap_or(15)
interval_mins(asset) ==
  IF market[asset] = None THEN 15 ELSE market[asset][1].interval_minutes

\* the `for signal in signals` loop of the check tick, run up to its next await
RECURSIVE ProcessSignals(_, _, _)
ProcessSignals(sigs, ts, t) ==
  IF sigs = <<>> THEN [ts |-> ts, rest |-> <<>>, wait |-> None]
  ELSE LET signal == sigs[1]
       IN IF ~can_trade_asset(ts.open_positions, signal.asset)
          THEN ProcessSignals(Tail(sigs), ts, t)
          ELSE IF mock_trading
          THEN ProcessSignals(Tail(sigs),
                              record_trade(ts, signal, interval_mins(signal.asset), t), t)
          ELSE [ts |-> ts, rest |-> Tail(sigs), wait |-> Some(signal)]

TS == [open_positions |-> open_positions, trades_executed |-> trades_executed,
       last_trade_time |-> last_trade_time]

\* ------------------------------------------------------------------------
\* Position / PositionTracker (position_tracker.rs); prices and shares are
\* rationals in dollars and shares
\* ------------------------------------------------------------------------
POSITION_STOP_LOSS_PCT == <<1, 20>>

\* Position::new
Position(token_id, entry_price, shares, t, is_long) ==
  [token_id |-> token_id, entry_price |-> entry_price, shares |-> shares,
   opened_at |-> t, is_long |-> is_long]

\* Position::pnl_pct
pnl_pct(pos, cur_price) ==
  IF pos.entry_price[1] = 0 THEN Zero
  ELSE IF pos.is_long THEN RatDiv(RatSub(cur_price, pos.entry_price), pos.entry_price)
  ELSE RatDiv(RatSub(pos.entry_price, cur_price), pos.entry_price)

\* should_stop_loss with a strict comparison against the threshold
should_stop_loss_strict(pos, cur_price, t) ==
  IF t - pos.opened_at < MIN_POSITION_AGE_SECS THEN FALSE
  ELSE RatLT(pnl_pct(pos, cur_price), RatNeg(POSITION_STOP_LOSS_PCT))

\* Position::should_stop_loss
should_stop_loss(pos, cur_price, t) ==
  IF t - pos.opened_at < MIN_POSITION_AGE_SECS THEN FALSE
  ELSE RatLE(pnl_pct(pos, cur_price), RatNeg(POSITION_STOP_LOSS_PCT))

\* add_position averaging the two prices without weighting them by shares
add_position_unweighted(ps, token_id, entry_price, shares, t) ==
  IF ps[token_id] # None
  THEN LET existing == ps[token_id][1]
       IN [ps EXCEPT ![token_id] =
             Some([existing EXCEPT !.entry_price = RatDivInt(RatAdd(existing.entry_price, entry_price), 2),
                                   !.shares = RatAdd(existing.shares, shares)])]
  ELSE [ps EXCEPT ![token_id] = Some(Position(token_id, entry_price, shares, t, TRUE))]
\* PositionTracker::add_position
add_position(ps, token_id, entry_price, shares, t) ==
  IF ps[token_id] # None
  THEN LET existing == ps[token_id][1]
           total_shares == RatAdd(existing.shares, shares)
           total_cost == RatAdd(RatMul(existing.entry_price, existing.shares),
                                RatMul(entry_price, shares))
       IN [ps EXCEPT ![token_id] =
             Some([existing EXCEPT !.entry_price = RatDiv(total_cost, total_shares),
                                   !.shares = total_shares])]
  ELSE [ps EXCEPT ![token_id] = Some(Position(token_id, entry_price, shares, t, TRUE))]

\* PositionTracker::remove_position
remove_position(ps, token_id) == [ps EXCEPT ![token_id] = None]

\* reduce_position that removes the position only once its shares are below zero
reduce_position_keeps_empty(ps, token_id, shares_sold) ==
  IF ps[token_id] = None THEN ps
  ELSE LET left == RatSub(ps[token_id][1].shares, shares_sold)
       IN IF RatLT(left, Zero) THEN [ps EXCEPT ![token_id] = None]
          ELSE [ps EXCEPT ![token_id] = Some([ps[token_id][1] EXCEPT !.shares = left])]
\* PositionTracker::reduce_position
reduce_position(ps, token_id, shares_sold) ==
  IF ps[token_id] = None THEN ps
  ELSE LET left == RatSub(ps[token_id][1].shares, shares_sold)
       IN IF RatLE(left, Zero) THEN [ps EXCEPT ![token_id] = None]
          ELSE [ps EXCEPT ![token_id] = Some([ps[token_id][1] EXCEPT !.shares = left])]

\* PositionTracker::check_stop_losses; quotes[token] is what the price fetcher
\* answers for the token (Option); the map's iteration order is unspecified,
\* so the result is a set
check_stop_losses(ps, quotes, t) ==
  {[token_id |-> tok, position |-> ps[tok][1], current_price |-> quotes[tok][1]] :
     tok \in {k \in DOMAIN ps : /\ ps[k] # None
                                /\ quotes[k] # None
                                /\ should_stop_loss(ps[k][1], quotes[k][1], t)}}

\* ------------------------------------------------------------------------
\* RwLock<PriceState> (tokio::sync::RwLock: fair, acquisitions served in
\* arrival order, a waiting writer holds back later readers)
\* ------------------------------------------------------------------------
LockFree == rw_writer = None /\ rw_readers = 0 /\ rw_queue = <<>>

\* serve the head of the queue for as long as it can be served
RECURSIVE Grant(_, _, _)
Grant(writer, readers, queue) ==
  IF queue = <<>> THEN [writer |-> writer, readers |-> readers, queue |-> queue]
  ELSE IF queue[1].kind = "write"
  THEN IF writer = None /\ readers = 0
       THEN [writer |-> Some(queue[1].task), readers |-> 0, queue |-> Tail(queue)]
       ELSE [writer |-> writer, readers |-> readers, queue |-> queue]
  ELSE IF writer = None
       THEN Grant(writer, readers + 1, Tail(queue))
       ELSE [writer |-> writer, readers |-> readers, queue |-> queue]

\* ------------------------------------------------------------------------
\* Inputs of the model
\* ------------------------------------------------------------------------
FeedAssets == {"BTC", "ETH"}       \* the feeds that deliver trades in the model
P0 == 100                          \* first price of every feed
Prices == {100, 104, 109}          \* prices a Binance trade can carry
ClockSteps == {20, 700}            \* seconds between two events of the trading loop
\* what the CLOB book of a fetched market answers: 0 = no book, else the best yes ask
BookAnswers == {0, 20, 500}
Responses == {"success", "rejected", "transport_error"}
StartTimes == {15 * 3600}          \* Monday 15:00 UTC = 10:00 EST

\* a LiveCryptoMarket
Market(asset, yes_ask, no_ask, interval_minutes) ==
  [asset |-> asset, yes_token_id |-> <<asset, "yes">>, no_token_id |-> <<asset, "no">>,
   yes_ask |-> yes_ask, no_ask |-> no_ask, interval_minutes |-> interval_minutes]

\* update_market_prices: Err when there is no book, else the yes ask of the book
\* and the no ask derived from it
update_market_prices(m, book) ==
  IF book = 0 THEN None
  ELSE Some([m EXCEPT !.yes_ask = book, !.no_ask = Min2(1000 - book + 20, 990)])

\* inputs of the engine's API (SpecEval)
EvalAssets == {"BTC"}
EvalSteps == {4}
EvalMarkets == {Market("BTC", 500, 520, 15), Market("BTC", 990, 995, 15)}
EngineConfigs == [max_position_usd : {200}, min_position_usd : {20, 300},
                  use_momentum : BOOLEAN, use_edge_check : BOOLEAN]

\* inputs of the position tracker (SpecTracker)
Tokens == {"tokA", "tokB"}
EntryPrices == {<<1, 2>>, <<0, 1>>}
ShareCounts == {<<100, 1>>}
SharesSold == {<<40, 1>>, <<100, 1>>}
TokenPrices == {<<19, 40>>, <<12, 25>>}   \* 0.475, 0.48
AgeSteps == {1, 29}

\* inputs of the fills model (SpecFills): fill prices 0.50, 0.60 and 0.52,
\* fills of 100 and 50 shares, sales of less than, exactly and more than a fill
FillPrices == {<<1, 2>>, <<3, 5>>, <<13, 25>>}
FillShares == {<<100, 1>>, <<50, 1>>}
SoldShares == {<<40, 1>>, <<100, 1>>, <<150, 1>>}

\* inputs of the history model (SpecHistory): the BTC feed has delivered this
\* many trades at P0, one a second, before the model starts
HistoryLengths == {18, 19, 20}
HistorySteps == {1}

\* inputs of the price-state model (SpecSignal): what the two histories hold
\* when the model starts, the prices the BTC feed then delivers (0 included)
\* and the seconds between two events
Samples(ps) == [i \in 1..Len(ps) |-> [p |-> ps[i], t |-> 0]]
BtcSeeds == {<<>>, Samples(<<100>>), Samples(<<100, 104>>)}
EthSeeds == {<<>>, Samples(<<100, 100, 100>>), Samples(<<200000, 200001, 200002>>)}
SignalPrices == {0, 100, 104, 109}
SignalSteps == {4, 10}
SignalAssets == {"BTC", "ETH"}
VelocityWindows == {3, 5}

\* inputs of the edge-mode gate model (SpecGate): one asset has moved from the
\* baseline GateBase by one of GateMoves (hundredths of a percent: every value
\* of the threshold table and the value just below it, upwards and downwards)
GateBase == 10000
GateMoves ==
  LET up == {1, 2, 3, 4, 5, 6, 7, 8, 9, 10, 11, 12, 14, 15, 19, 20, 24, 25, 29, 30}
  IN up \cup {-d : d \in up}
GateIntervals == {5, 15, 60, 240, 30}
GateMarkets == {Market(a, 500, 520, i) : a \in Assets, i \in GateIntervals}
\* the end-to-end scenario: BTC from 100,000 to 100,400 through 100,100, a
\* 15-minute market with a yes ask of 0.55
ScenarioHistory ==
  <<[p |-> 100000, t |-> 0], [p |-> 100100, t |-> 0], [p |-> 100400, t |-> 1]>>
ScenarioMarket == Market("BTC", 550, 470, 15)
\* inputs of the velocity gate model (SpecVelocity): prices around the
\* baseline GateBase that put the velocity at and just below each asset's
\* threshold; for XRP also two prices (15000, 12000) that make the 3 s and
\* the 5 s velocity tie in magnitude with opposite signs
VelocityPrices == {9999, 10001, 10002, 10003, 10004}
XrpPrices == {10002, 10004, 12000, 15000}
VelocitySteps == {2, 4}

\* inputs of the entry price model (SpecEntry): asks at and just above the
\* maximum entry price and at the global maximum, and a BTC trade 0.1 percent
\* above or below the baseline
GuardAsks == {500, 600, 610, 990}
GuardMarkets == {Market("BTC", y, n, 15) : y \in GuardAsks, n \in GuardAsks}
GuardPrices == {9990, 10010}

\* inputs of the status model (SpecStatus): trades that leave the price
\* where it was, move it by 0.01 percent or move it by 0.02 percent
StatusAssets == {"BTC", "ETH"}
StatusPrices == {10000, 10001, 10002}

\* inputs of the exit model (SpecExits): positions as record_trade left them
\* at time 0 and price P0, up or down bets on 5- and 15-minute markets;
\* prices that move the effective P&L to +8, -6, -8 and +6 percent; clock
\* steps that reach the minimum hold and the hold-time limits
OpenPosition(asset, up, interval_minutes) ==
  [token_id |-> <<asset, IF up THEN "yes" ELSE "no">>, size_usd |-> <<200, 1>>,
   entry_price |-> IF up THEN 500 ELSE 520, direction_up |-> up, entry_time |-> 0,
   entry_crypto_price |-> P0, interval_minutes |-> interval_minutes, asset |-> asset]
ExitBooks ==
  LET PositionsOf(asset) ==
        {<<>>} \cup {<<OpenPosition(asset, up, m)>> : up \in BOOLEAN, m \in {5, 15}}
  IN {b \o e : b \in PositionsOf("BTC"), e \in PositionsOf("ETH")} \ {<<>>}
ExitPrices == {96, 97, 100, 104}
ExitSteps == {20, 220, 700}

\* inputs of the fair trading loop (SpecExitsLive): a 5-minute up bet alone,
\* and a 15-minute down bet together with a 5-minute up bet; a price that
\* stops an up bet out, the entry price, a price that takes an up bet's profit
LiveBooks ==
  {<<OpenPosition("BTC", TRUE, 5)>>,
   <<OpenPosition("BTC", FALSE, 15), OpenPosition("ETH", TRUE, 5)>>}
LivePrices == {97, 100, 104}

\* inputs of the filter model (SpecFilters): every combination of the four
\* switches and of require_acceleration, momentum readings at and below the
\* minimum score and consistency, no / thin / deep order book, no / weak /
\* surging volume, a time inside and one outside trading hours
FilterConfigs ==
  {[EngineStrategyConfig EXCEPT !.enable_momentum = m, !.enable_orderbook = o,
                                !.enable_volume = v, !.enable_time = t,
                                !.require_acceleration = r] :
     m \in BOOLEAN, o \in BOOLEAN, v \in BOOLEAN, t \in BOOLEAN, r \in BOOLEAN}
MomentumReadings ==
  [momentum_score : {<<3, 10>>, <<4, 10>>, <<-1, 2>>}, consistency : {<<7, 10>>, <<8, 10>>},
   is_accelerating : BOOLEAN, direction_matches : BOOLEAN]
Books == {None, Some([bid_depth_usd |-> 100, ask_depth_usd |-> 100]),
          Some([bid_depth_usd |-> 600, ask_depth_usd |-> 600])}
Volumes == {None, Some([current_volume |-> 500, average_volume |-> 0]),
            Some([current_volume |-> 3000, average_volume |-> 1000])}
FilterTimes == {15 * 3600, 3 * 3600}

\* inputs of the lock model (SpecLock)
ReaderJobs == {[kind |-> "evaluation", asset |-> a] : a \in FeedAssets}
                \cup {[kind |-> "status", asset |-> "BTC"],
                      [kind |-> "price_log", asset |-> "BTC"]}

\* ------------------------------------------------------------------------
\* The feed tasks (run_binance_feed)
\* ------------------------------------------------------------------------

\* a write section that stores the sample's price for every asset
WriteSampleTouchesAll(asset, p) ==
  /\ interval_start_price' =
       IF interval_start_price[asset] = 0
       THEN [interval_start_price EXCEPT ![asset] = p]
       ELSE interval_start_price
  /\ price' = [a \in Assets |-> p]
  /\ price_history' = [price_history EXCEPT ![asset] = add_price_sample(@, p, now)]
  /\ recorded' = [recorded EXCEPT ![asset] = Append(@, [p |-> p, t |-> now])]
\* a write section that moves the baseline to every sample
WriteSampleRebases(asset, p) ==
  /\ interval_start_price' = [interval_start_price EXCEPT ![asset] = p]
  /\ price' = [price EXCEPT ![asset] = p]
  /\ price_history' = [price_history EXCEPT ![asset] = add_price_sample(@, p, now)]
  /\ recorded' = [recorded EXCEPT ![asset] = Append(@, [p |-> p, t |-> now])]
\* the body of the write section of run_binance_feed
WriteSample(asset, p) ==
  /\ interval_start_price' =
       IF interval_start_price[asset] = 0
       THEN [interval_start_price EXCEPT ![asset] = p]
       ELSE interval_start_price
  /\ price' = [price EXCEPT ![asset] = p]
  /\ price_history' = [price_history EXCEPT ![asset] = add_price_sample(@, p, now)]
  /\ recorded' = [recorded EXCEPT ![asset] = Append(@, [p |-> p, t |-> now])]

\* one trade message handled by a feed task (lock acquisition not shown)
BinanceFeed(asset, p) ==
  /\ nfeeds < MaxFeeds
  /\ WriteSample(asset, p)
  /\ nfeeds' = nfeeds + 1
  /\ signals' = None /\ exits' = None /\ last_signal' = None
  /\ last_velocity' = None /\ last_momentum' = None /\ status' = None
  /\ UNCHANGED <<now, cfgVars, callVars, mapVars, marketVars, tradeVars, loopVars, trackerVars, lockVars,
                 nclock, nrefresh, nops>>

\* time passing
AdvanceClock(d) ==
  /\ nclock < MaxClock
  /\ now' = now + d
  /\ nclock' = nclock + 1
  /\ signals' = None /\ exits' = None /\ last_signal' = None /\ to_sell' = None
  /\ last_velocity' = None /\ last_momentum' = None /\ status' = None
  /\ UNCHANGED <<cfgVars, callVars, mapVars, priceVars, marketVars, tradeVars, loopVars, positions, fills, lockVars,
                 nfeeds, nrefresh, nops>>

\* ------------------------------------------------------------------------
\* The main task's select loop (bin/crypto_arb_bot.rs)
\* ------------------------------------------------------------------------

\* the end of the check tick: exit check on the open positions, back to select
FinishTick(ts) ==
  \E r \in {check_exits_multi(ts.open_positions, price, now)} :
     /\ open_positions' = r.remaining
     /\ closed' = closed \cup {[pos |-> r.exits[i].pos, at |-> now] : i \in 1..Len(r.exits)}
     /\ exits' = Some(r.exits)
     /\ trades_executed' = ts.trades_executed
     /\ last_trade_time' = ts.last_trade_time
     /\ main_pc' = "select"
     /\ pending' = <<>>
     /\ in_flight' = None

\* the check tick up to its next await: the signal loop, then either the
\* await of execute_trade or the exit check
RunTick(sigs, ts) ==
  \E r \in {ProcessSignals(sigs, ts, now)} :
     IF r.wait = None
     THEN FinishTick(r.ts)
     ELSE /\ open_positions' = r.ts.open_positions
          /\ closed' = closed
          /\ trades_executed' = r.ts.trades_executed
          /\ last_trade_time' = r.ts.last_trade_time
          /\ main_pc' = "trade_wait"
          /\ pending' = r.rest
          /\ in_flight' = r.wait
          /\ exits' = None

\* `_ = check_interval.tick()` branch
CheckIntervalTick ==
  /\ main_pc = "select"
  /\ last_exec' = "none"
  /\ \E sigs \in {check_all_opportunities}, ts \in {TS} :
       signals' = Some(sigs) /\ RunTick(sigs, ts)
  /\ UNCHANGED <<now, cfgVars, callVars, mapVars, sigVars, priceVars, marketVars, last_signal, trackerVars, lockVars,
                 countVars>>

\* execute_trade(..).await returns; the tick resumes
ExecuteTradeDone(response) ==
  /\ main_pc = "trade_wait"
  /\ last_exec' = response
  /\ LET signal == in_flight[1]
         ts == IF execute_trade(response) = "Ok"
               THEN record_trade(TS, signal, interval_mins(signal.asset), now)
               ELSE TS
     IN RunTick(pending, ts)
  /\ UNCHANGED <<now, cfgVars, callVars, mapVars, sigVars, priceVars, marketVars, signals, last_signal, trackerVars,
                 lockVars, countVars>>

\* `_ = market_refresh_interval.tick()` branch, up to its network awaits
MarketRefreshStart ==
  /\ main_pc = "select"
  /\ nrefresh < MaxRefresh
  /\ main_pc' = "refresh_wait"
  /\ nrefresh' = nrefresh + 1
  /\ UNCHANGED <<now, cfgVars, callVars, mapVars, sigVars, priceVars, marketVars, tradeVars, pending, in_flight,
                 last_exec, outVars, trackerVars, lockVars, nfeeds, nclock, nops>>

\* best market per asset among the fetched ones (first of the closest to 50c)
RECURSIVE BestMarket(_, _, _)
BestMarket(fetched, asset, best) ==
  IF fetched = <<>> THEN best
  ELSE LET c == fetched[1]
           u == update_market_prices(Market(c.asset, 500, 500, c.interval_minutes), c.book)
           better == /\ u # None
                     /\ u[1].yes_ask >= 30 /\ u[1].yes_ask <= 970
                     /\ c.asset = asset
                     /\ (best = None \/ Abs(u[1].yes_ask - 500) < Abs(best[1].yes_ask - 500))
       IN BestMarket(Tail(fetched), asset, IF better THEN u ELSE best)

\* the network answers; the rest of the refresh branch runs
MarketRefreshDone(fetched) ==
  /\ main_pc = "refresh_wait"
  /\ main_pc' = "select"
  /\ IF fetched # None
     THEN /\ market' = [a \in Assets |-> BestMarket(fetched[1], a, None)]
          /\ interval_start_price' =
               [a \in Assets |->
                  IF BestMarket(fetched[1], a, None) # None /\ market[a] = None
                  THEN price[a] ELSE interval_start_price[a]]
     ELSE UNCHANGED <<market, interval_start_price>>
  /\ signals' = None
  /\ UNCHANGED <<now, cfgVars, callVars, mapVars, sigVars, price, price_history, recorded, legacy_market, tradeVars,
                 pending,
                 in_flight, last_exec, exits, last_signal, trackerVars, lockVars, countVars>>

Candidates == [asset : FeedAssets, book : BookAnswers, interval_minutes : {15}]

RECURSIVE SeqsUpTo(_, _)
SeqsUpTo(S, n) ==
  IF n = 0 THEN {<<>>}
  ELSE LET shorter == SeqsUpTo(S, n - 1)
       IN shorter \cup {Append(q, x) : q \in shorter, x \in S}

\* what fetch_live_crypto_markets can answer: Err, or Ok(list)
FetchAnswers == {None} \cup {Some(l) : l \in SeqsUpTo(Candidates, MaxMarkets)}

\* ------------------------------------------------------------------------
\* The engine's API (crypto_arb.rs)
\* ------------------------------------------------------------------------
engineFrame == <<now, cfgVars, callVars, mapVars, sigVars, tradeVars, loopVars, trackerVars, lockVars, countVars>>

\* CryptoArbEngine::set_market
SetMarket(m) ==
  /\ legacy_market' = Some(m)
  /\ last_signal' = None
  /\ UNCHANGED <<engineFrame, priceVars, market, signals, exits>>

\* CryptoArbEngine::set_market_for_asset
SetMarketForAsset(m) ==
  /\ market' = [market EXCEPT ![m.asset] = Some(m)]
  /\ signals' = None
  /\ UNCHANGED <<engineFrame, priceVars, legacy_market, last_signal, exits>>

\* CryptoArbEngine::clear_market_for_asset
ClearMarketForAsset(asset) ==
  /\ market[asset] # None
  /\ market' = [market EXCEPT ![asset] = None]
  /\ signals' = None
  /\ UNCHANGED <<engineFrame, priceVars, legacy_market, last_signal, exits>>

\* CryptoArbEngine::reset_interval
ResetInterval ==
  /\ interval_start_price' = price
  /\ last_signal' = None
  /\ UNCHANGED <<engineFrame, price, price_history, recorded, marketVars, signals, exits>>

\* a per-asset reset that moves every baseline
ResetIntervalForAssetMovesAll(asset) ==
  /\ interval_start_price' = price
  /\ last_signal' = None
  /\ UNCHANGED <<engineFrame, price, price_history, recorded, marketVars, signals, exits>>
\* CryptoArbEngine::reset_interval_for_asset
ResetIntervalForAsset(asset) ==
  /\ interval_start_price' = [interval_start_price EXCEPT ![asset] = price[asset]]
  /\ last_signal' = None
  /\ UNCHANGED <<engineFrame, price, price_history, recorded, marketVars, signals, exits>>

\* a call of CryptoArbEngine::check_opportunity
CheckOpportunity ==
  /\ last_signal' = Some(check_opportunity)
  /\ UNCHANGED <<engineFrame, priceVars, marketVars, signals, exits>>

\* a call of CryptoArbEngine::check_all_opportunities
CheckAllOpportunities ==
  /\ signals' = Some(check_all_opportunities)
  /\ UNCHANGED <<engineFrame, priceVars, marketVars, last_signal, exits>>

\* ------------------------------------------------------------------------
\* The position tracker's API (position_tracker.rs)
\* ------------------------------------------------------------------------
trackerFrame == <<now, cfgVars, callVars, mapVars, sigVars, priceVars, marketVars, tradeVars, loopVars, outVars,
                  lockVars, nfeeds, nclock, nrefresh>>

AddPosition(token_id, entry_price, shares) ==
  /\ nops < MaxOps
  /\ nops' = nops + 1
  /\ positions' = add_position(positions, token_id, entry_price, shares, now)
  /\ fills' = [fills EXCEPT ![token_id] = Append(@, [price |-> entry_price, shares |-> shares])]
  /\ to_sell' = None
  /\ UNCHANGED trackerFrame

RemovePosition(token_id) ==
  /\ positions[token_id] # None
  /\ positions' = remove_position(positions, token_id)
  /\ fills' = [fills EXCEPT ![token_id] = <<>>]
  /\ to_sell' = None
  /\ UNCHANGED <<trackerFrame, nops>>

ReducePosition(token_id, shares_sold) ==
  /\ positions' = reduce_position(positions, token_id, shares_sold)
  /\ fills' = [fills EXCEPT ![token_id] =
                IF positions'[token_id] = None THEN <<>>
                ELSE Append(@, [price |-> Zero, shares |-> RatNeg(shares_sold)])]
  /\ to_sell' = None
  /\ UNCHANGED <<trackerFrame, nops>>

\* a call of check_stop_losses with the quotes its price fetcher answers
CheckStopLosses(quotes) ==
  /\ to_sell' = Some([quotes |-> quotes, sells |-> check_stop_losses(positions, quotes, now)])
  /\ UNCHANGED <<trackerFrame, positions, fills, nops>>

Quotes == [Tokens -> {None} \cup {Some(q) : q \in TokenPrices}]

\* ------------------------------------------------------------------------
\* The feed tasks and the main task on the lock of the price state
\* ------------------------------------------------------------------------
lockFrame == <<now, cfgVars, callVars, mapVars, marketVars, tradeVars, loopVars, trackerVars, nclock, nrefresh>>

\* a feed task has parsed a trade and reaches `price_state.write().await`
FeedRecv(asset, p) ==
  /\ feed_pc[asset] = "recv"
  /\ nfeeds < MaxFeeds
  /\ nfeeds' = nfeeds + 1
  /\ feed_price' = [feed_price EXCEPT ![asset] = p]
  /\ IF LockFree
     THEN /\ rw_writer' = Some(asset)
          /\ feed_pc' = [feed_pc EXCEPT ![asset] = "writing"]
          /\ UNCHANGED rw_queue
     ELSE /\ rw_queue' = Append(rw_queue, [kind |-> "write", task |-> asset])
          /\ feed_pc' = [feed_pc EXCEPT ![asset] = "write_wait"]
          /\ UNCHANGED rw_writer
  /\ UNCHANGED <<lockFrame, sigVars, priceVars, outVars, reader_pc, reader_job, rw_readers, nops>>

\* the feed task writes its sample and drops the write guard
FeedWrite(asset) ==
  /\ feed_pc[asset] = "writing"
  /\ WriteSample(asset, feed_price[asset])
  /\ signals' = None /\ exits' = None /\ last_signal' = None
  /\ last_velocity' = None /\ last_momentum' = None /\ status' = None
  /\ LET g == Grant(None, 0, rw_queue)
     IN /\ rw_writer' = g.writer
        /\ rw_readers' = g.readers
        /\ rw_queue' = g.queue
        /\ feed_pc' = [a \in DOMAIN feed_pc |->
                         IF a = asset THEN "recv"
                         ELSE IF g.writer = Some(a) THEN "writing" ELSE feed_pc[a]]
        /\ reader_pc' = IF reader_pc = "read_wait" /\ g.readers > 0 THEN "reading"
                        ELSE reader_pc
  /\ UNCHANGED <<lockFrame, feed_price, reader_job, nfeeds, nops>>

\* the write section of run_binance_feed in its two halves: the baseline and
\* the price are stored, the write guard stays held
FeedStore(asset) ==
  /\ feed_pc[asset] = "writing"
  /\ interval_start_price' =
       IF interval_start_price[asset] = 0
       THEN [interval_start_price EXCEPT ![asset] = feed_price[asset]]
       ELSE interval_start_price
  /\ price' = [price EXCEPT ![asset] = feed_price[asset]]
  /\ feed_pc' = [feed_pc EXCEPT ![asset] = "sampling"]
  /\ signals' = None /\ exits' = None /\ last_signal' = None
  /\ last_velocity' = None /\ last_momentum' = None /\ status' = None
  /\ UNCHANGED <<lockFrame, price_history, recorded, feed_price, reader_pc, reader_job,
                 rw_writer, rw_readers, rw_queue, nfeeds, nops>>

\* add_price_sample records the sample and the write guard is dropped
FeedSample(asset) ==
  /\ feed_pc[asset] = "sampling"
  /\ price_history' = [price_history EXCEPT ![asset] = add_price_sample(@, feed_price[asset], now)]
  /\ recorded' = [recorded EXCEPT ![asset] = Append(@, [p |-> feed_price[asset], t |-> now])]
  /\ LET g == Grant(None, 0, rw_queue)
     IN /\ rw_writer' = g.writer
        /\ rw_readers' = g.readers
        /\ rw_queue' = g.queue
        /\ feed_pc' = [a \in DOMAIN feed_pc |->
                         IF a = asset THEN "recv"
                         ELSE IF g.writer = Some(a) THEN "writing" ELSE feed_pc[a]]
        /\ reader_pc' = IF reader_pc = "read_wait" /\ g.readers > 0 THEN "reading"
                        ELSE reader_pc
  /\ UNCHANGED <<lockFrame, sigVars, outVars, price, interval_start_price, feed_price,
                 reader_job, nfeeds, nops>>

\* a read acquisition that does not wait for the writer
ReadAcquireBarging(job) ==
  /\ reader_pc = "idle"
  /\ nops < MaxOps
  /\ nops' = nops + 1
  /\ reader_job' = job
  /\ rw_readers' = rw_readers + 1
  /\ reader_pc' = "reading"
  /\ UNCHANGED <<lockFrame, sigVars, priceVars, outVars, feed_pc, feed_price, rw_writer, rw_queue, nfeeds>>
\* the main task reaches a `price_state.read().await`
ReadAcquire(job) ==
  /\ reader_pc = "idle"
  /\ nops < MaxOps
  /\ nops' = nops + 1
  /\ reader_job' = job
  /\ IF rw_writer = None /\ rw_queue = <<>>
     THEN /\ rw_readers' = rw_readers + 1
          /\ reader_pc' = "reading"
          /\ UNCHANGED rw_queue
     ELSE /\ rw_queue' = Append(rw_queue, [kind |-> "read", task |-> "main"])
          /\ reader_pc' = "read_wait"
          /\ UNCHANGED rw_readers
  /\ UNCHANGED <<lockFrame, sigVars, priceVars, outVars, feed_pc, feed_price, rw_writer, nfeeds>>

\* the main task finishes its read section and drops the read guard
ReadRelease ==
  /\ reader_pc = "reading"
  /\ reader_pc' = "idle"
  /\ signals' = IF reader_job.kind = "evaluation"
                THEN Some(check_opportunity_for_asset(reader_job.asset))
                ELSE signals
  /\ LET g == Grant(None, rw_readers - 1, rw_queue)
     IN /\ rw_writer' = g.writer
        /\ rw_readers' = g.readers
        /\ rw_queue' = g.queue
        /\ feed_pc' = [a \in DOMAIN feed_pc |->
                         IF g.writer = Some(a) THEN "writing" ELSE feed_pc[a]]
  /\ UNCHANGED <<lockFrame, sigVars, priceVars, exits, last_signal, feed_price, reader_job,
                 nfeeds, nops>>

\* ------------------------------------------------------------------------
\* The position map's RwLock at the grain of its guards (position_tracker.rs):
\* one task calling check_stop_losses, one calling add/remove/reduce_position
\* ------------------------------------------------------------------------
mapFrame == <<now, cfgVars, callVars, sigVars, priceVars, marketVars, tradeVars, loopVars, outVars,
              lockVars, nfeeds, nclock, nrefresh>>

\* the calls that take the write guard of the map
MapOps ==
  {[kind |-> "add", token_id |-> k, entry_price |-> e, shares |-> n] :
     k \in Tokens, e \in EntryPrices, n \in ShareCounts}
  \cup {[kind |-> "remove", token_id |-> k, entry_price |-> Zero, shares |-> Zero] : k \in Tokens}
  \cup {[kind |-> "reduce", token_id |-> k, entry_price |-> Zero, shares |-> n] :
          k \in Tokens, n \in SharesSold}

\* what add_position / remove_position / reduce_position do under the write guard
ApplyMapOp(ps, op, t) ==
  CASE op.kind = "add" -> add_position(ps, op.token_id, op.entry_price, op.shares, t)
    [] op.kind = "remove" -> remove_position(ps, op.token_id)
    [] op.kind = "reduce" -> reduce_position(ps, op.token_id, op.shares)

\* the fills of each token's position after one of these calls
ApplyMapOpFills(fs, ps, op, t) ==
  LET k == op.token_id
  IN CASE op.kind = "add" -> [fs EXCEPT ![k] = Append(@, [price |-> op.entry_price, shares |-> op.shares])]
       [] op.kind = "remove" -> [fs EXCEPT ![k] = <<>>]
       [] op.kind = "reduce" ->
            [fs EXCEPT ![k] = IF ApplyMapOp(ps, op, t)[k] = None THEN <<>>
                              ELSE Append(@, [price |-> Zero, shares |-> RatNeg(op.shares)])]

\* a caller reaches `self.positions.write().await`: with no read guard out it
\* runs its body and drops the guard, else it waits
MapWriteCall(op) ==
  /\ mut_pc = "idle"
  /\ nops < MaxOps
  /\ nops' = nops + 1
  /\ IF map_readers = 0
     THEN /\ positions' = ApplyMapOp(positions, op, now)
          /\ fills' = ApplyMapOpFills(fills, positions, op, now)
          /\ to_sell' = None
          /\ UNCHANGED <<mut_pc, mut_op>>
     ELSE /\ mut_pc' = "write_wait"
          /\ mut_op' = Some(op)
          /\ UNCHANGED <<positions, to_sell, fills>>
  /\ UNCHANGED <<mapFrame, map_readers, csl_pc, csl_todo, csl_cur, csl_quotes, csl_sells>>

\* the last read guard is gone: the waiting caller gets the write guard
MapWriteGranted ==
  /\ mut_pc = "write_wait"
  /\ map_readers = 0
  /\ positions' = ApplyMapOp(positions, mut_op[1], now)
  /\ fills' = ApplyMapOpFills(fills, positions, mut_op[1], now)
  /\ to_sell' = None
  /\ mut_pc' = "idle"
  /\ mut_op' = None
  /\ UNCHANGED <<mapFrame, map_readers, csl_pc, csl_todo, csl_cur, csl_quotes, csl_sells, nops>>

\* check_stop_losses up to its first await: `self.positions.read().await`,
\* then `price_fetcher.get_current_price(token_id).await` for the first entry
\* the map's iterator yields (a waiting writer holds a new reader back)
CslStart ==
  /\ csl_pc = "idle"
  /\ mut_pc = "idle"
  /\ LET held == {k \in Tokens : positions[k] # None}
     IN IF held = {}
        THEN /\ to_sell' = Some([quotes |-> [k \in Tokens |-> None], sells |-> {}])
             /\ UNCHANGED <<map_readers, csl_pc, csl_todo, csl_cur, csl_quotes, csl_sells>>
        ELSE \E k \in held :
               /\ map_readers' = map_readers + 1
               /\ csl_pc' = "fetch_wait"
               /\ csl_cur' = Some(k)
               /\ csl_todo' = held \ {k}
               /\ csl_quotes' = [j \in Tokens |-> None]
               /\ csl_sells' = {}
               /\ to_sell' = None
  /\ UNCHANGED <<mapFrame, positions, fills, mut_pc, mut_op, nops>>

\* the price fetcher answers q for the current token; the loop goes on to the
\* next entry's fetch, or ends: the read guard is dropped and to_sell returned
CslFetched(q) ==
  /\ csl_pc = "fetch_wait"
  /\ LET k == csl_cur[1]
         quotes == [csl_quotes EXCEPT ![k] = q]
         sells == IF q # None /\ should_stop_loss(positions[k][1], q[1], now)
                  THEN csl_sells \cup {[token_id |-> k, position |-> positions[k][1],
                                        current_price |-> q[1]]}
                  ELSE csl_sells
     IN IF csl_todo = {}
        THEN /\ to_sell' = Some([quotes |-> quotes, sells |-> sells])
             /\ map_readers' = map_readers - 1
             /\ csl_pc' = "idle"
             /\ csl_cur' = None
             /\ csl_todo' = {}
             /\ csl_quotes' = [j \in Tokens |-> None]
             /\ csl_sells' = {}
        ELSE \E n \in csl_todo :
               /\ csl_cur' = Some(n)
               /\ csl_todo' = csl_todo \ {n}
               /\ csl_quotes' = quotes
               /\ csl_sells' = sells
               /\ UNCHANGED <<to_sell, map_readers, csl_pc>>
  /\ UNCHANGED <<mapFrame, positions, fills, mut_pc, mut_op, nops>>

\* ------------------------------------------------------------------------
\* Initial states and specifications
\* ------------------------------------------------------------------------
InitPrices ==
  /\ now = 0
  /\ price = [a \in Assets |-> P0]
  /\ interval_start_price = [a \in Assets |-> P0]
  /\ price_history = [a \in Assets |-> <<[p |-> P0, t |-> 0]>>]
  /\ recorded = price_history

InitTrading ==
  /\ open_positions = TradingStateNew.open_positions
  /\ trades_executed = TradingStateNew.trades_executed
  /\ last_trade_time = TradingStateNew.last_trade_time
  /\ closed = {}
  /\ main_pc = "select"
  /\ pending = <<>>
  /\ in_flight = None
  /\ last_exec = "none"

InitTracker ==
  /\ positions = [k \in Tokens |-> None]
  /\ fills = [k \in Tokens |-> <<>>]
  /\ to_sell = None
  /\ map_readers = 0
  /\ csl_pc = "idle"
  /\ csl_todo = {}
  /\ csl_cur = None
  /\ csl_quotes = [k \in Tokens |-> None]
  /\ csl_sells = {}
  /\ mut_pc = "idle"
  /\ mut_op = None

InitLock ==
  /\ feed_pc = [a \in FeedAssets |-> "recv"]
  /\ feed_price = [a \in FeedAssets |-> 0]
  /\ reader_pc = "idle"
  /\ reader_job = [kind |-> "price_log", asset |-> "BTC"]
  /\ rw_writer = None
  /\ rw_readers = 0
  /\ rw_queue = <<>>

InitOutputs ==
  /\ utc_start \in StartTimes
  /\ signals = None /\ exits = None /\ last_signal = None
  /\ last_velocity = None /\ last_momentum = None /\ status = None
  /\ nfeeds = 0 /\ nclock = 0 /\ nrefresh = 0 /\ nops = 0

InitRest == InitOutputs /\ filter_call = None

\* all feeds have delivered a first price and the start-up market search has
\* found a market for each of them
InitMarkets ==
  /\ market = [a \in Assets |-> IF a \in FeedAssets THEN Some(Market(a, 500, 520, 15))
                                ELSE None]
  /\ legacy_market = None

DefaultConfig ==
  [max_position_usd |-> 200, min_position_usd |-> 100,
   use_momentum |-> TRUE, use_edge_check |-> TRUE]

\* the bot: feeds, clock and the select loop of main
Init ==
  /\ InitPrices /\ InitTrading /\ InitTracker /\ InitLock /\ InitRest /\ InitMarkets
  /\ engine_cfg = DefaultConfig
  /\ mock_trading \in BOOLEAN

Next ==
  \/ \E a \in FeedAssets, p \in Prices : BinanceFeed(a, p)
  \/ \E d \in ClockSteps : AdvanceClock(d)
  \/ CheckIntervalTick
  \/ \E r \in Responses : ExecuteTradeDone(r)
  \/ MarketRefreshStart
  \/ \E fetched \in FetchAnswers : MarketRefreshDone(fetched)

Spec == Init /\ [][Next]_vars

\* the engine driven through its API, under every configuration
InitEval ==
  /\ InitPrices /\ InitTrading /\ InitTracker /\ InitLock /\ InitRest
  /\ market = [a \in Assets |-> None]
  /\ legacy_market = None
  /\ engine_cfg \in EngineConfigs
  /\ mock_trading = TRUE

NextEval ==
  \/ \E a \in EvalAssets, p \in Prices : BinanceFeed(a, p)
  \/ \E d \in EvalSteps : AdvanceClock(d)
  \/ \E m \in EvalMarkets : SetMarket(m)
  \/ \E m \in EvalMarkets : SetMarketForAsset(m)
  \/ \E a \in EvalAssets : ClearMarketForAsset(a)
  \/ ResetInterval
  \/ \E a \in EvalAssets : ResetIntervalForAsset(a)
  \/ CheckOpportunity
  \/ CheckAllOpportunities

SpecEval == InitEval /\ [][NextEval]_vars

\* the position tracker driven through its API
InitDefault ==
  /\ InitPrices /\ InitTrading /\ InitTracker /\ InitLock /\ InitRest /\ InitMarkets
  /\ engine_cfg = DefaultConfig
  /\ mock_trading = TRUE

NextTracker ==
  \/ \E k \in Tokens, e \in EntryPrices, n \in ShareCounts : AddPosition(k, e, n)
  \/ \E k \in Tokens : RemovePosition(k)
  \/ \E k \in Tokens, n \in SharesSold : ReducePosition(k, n)
  \/ \E q \in Quotes : CheckStopLosses(q)
  \/ \E d \in AgeSteps : AdvanceClock(d)

SpecTracker == InitDefault /\ [][NextTracker]_vars

\* the position map driven by fills and sales
NextFills ==
  \/ \E k \in Tokens, e \in FillPrices, n \in FillShares : AddPosition(k, e, n)
  \/ \E k \in Tokens : RemovePosition(k)
  \/ \E k \in Tokens, n \in SoldShares : ReducePosition(k, n)

SpecFills == InitDefault /\ [][NextFills]_vars

\* the feed tasks and the reads of the main task, at the grain of the lock
NextLock ==
  \/ \E a \in FeedAssets, p \in Prices : FeedRecv(a, p)
  \/ \E a \in FeedAssets : FeedWrite(a)
  \/ \E job \in ReaderJobs : ReadAcquire(job)
  \/ ReadRelease

SpecLock == InitDefault /\ [][NextLock]_vars

\* the price history after n trades of the BTC feed, one a second
FedHistory(n) == [i \in 1..n |-> [p |-> P0, t |-> i - 1]]

\* a feed that has been running for a while: the history is about to overflow
InitHistory ==
  /\ InitTrading /\ InitTracker /\ InitLock /\ InitRest /\ InitMarkets
  /\ engine_cfg = DefaultConfig
  /\ mock_trading = TRUE
  /\ \E n \in HistoryLengths :
       /\ now = n - 1
       /\ price_history = [a \in Assets |-> IF a = "BTC" THEN FedHistory(n)
                                            ELSE <<[p |-> P0, t |-> 0]>>]
  /\ recorded = price_history
  /\ price = [a \in Assets |-> P0]
  /\ interval_start_price = [a \in Assets |-> P0]

NextHistory ==
  \/ \E a \in FeedAssets, p \in Prices : BinanceFeed(a, p)
  \/ \E d \in HistorySteps : AdvanceClock(d)

SpecHistory == InitHistory /\ [][NextHistory]_vars

\* ------------------------------------------------------------------------
\* PriceState queried through velocity_pct and momentum
\* ------------------------------------------------------------------------
signalFrame == <<now, cfgVars, callVars, mapVars, priceVars, marketVars, tradeVars, loopVars, outVars,
                 trackerVars, lockVars, countVars>>

\* a call of PriceState::velocity_pct
Velocity(asset, window_secs) ==
  /\ last_velocity' = Some([asset |-> asset, window_secs |-> window_secs,
                            value |-> velocity_pct(price_history[asset], now, window_secs)])
  /\ UNCHANGED <<signalFrame, last_momentum, status>>

\* a call of PriceState::momentum
Momentum(asset) ==
  /\ last_momentum' = Some([asset |-> asset, value |-> momentum(price_history[asset])])
  /\ UNCHANGED <<signalFrame, last_velocity, status>>

\* the price state as the feeds left it at time 0
InitSignal ==
  /\ InitTrading /\ InitTracker /\ InitLock /\ InitRest
  /\ market = [a \in Assets |-> None]
  /\ legacy_market = None
  /\ engine_cfg = DefaultConfig
  /\ mock_trading = TRUE
  /\ now = 0
  /\ \E b \in BtcSeeds, e \in EthSeeds :
       price_history = [a \in Assets |-> IF a = "BTC" THEN b ELSE IF a = "ETH" THEN e ELSE <<>>]
  /\ recorded = price_history
  /\ price = [a \in Assets |-> IF price_history[a] = <<>> THEN 0
                               ELSE price_history[a][Len(price_history[a])].p]
  /\ interval_start_price = [a \in Assets |-> IF price_history[a] = <<>> THEN 0
                                              ELSE price_history[a][1].p]

NextSignal ==
  \/ \E p \in SignalPrices : BinanceFeed("BTC", p)
  \/ \E d \in SignalSteps : AdvanceClock(d)
  \/ \E a \in SignalAssets, w \in VelocityWindows : Velocity(a, w)
  \/ \E a \in SignalAssets : Momentum(a)

SpecSignal == InitSignal /\ [][NextSignal]_vars

\* the engine of the bot, or one built with both optional checks switched off
GateConfigs ==
  {DefaultConfig, [DefaultConfig EXCEPT !.use_momentum = FALSE, !.use_edge_check = FALSE]}

\* the price state after the feed of one asset has moved it off the baseline
GridPrices(a, d) ==
  /\ now = 0
  /\ price = [x \in Assets |-> IF x = a THEN GateBase + d ELSE GateBase]
  /\ interval_start_price = [x \in Assets |-> GateBase]
  /\ price_history = [x \in Assets |->
                        IF x = a THEN <<[p |-> GateBase, t |-> 0], [p |-> GateBase + d, t |-> 0]>>
                        ELSE <<[p |-> GateBase, t |-> 0]>>]

\* the price state of the end-to-end scenario, one second after the baseline
ScenarioPrices ==
  /\ now = 1
  /\ price = [x \in Assets |-> IF x = "BTC" THEN 100400 ELSE GateBase]
  /\ interval_start_price = [x \in Assets |-> IF x = "BTC" THEN 100000 ELSE GateBase]
  /\ price_history = [x \in Assets |-> IF x = "BTC" THEN ScenarioHistory
                                       ELSE <<[p |-> GateBase, t |-> 0]>>]

InitGate ==
  /\ InitTrading /\ InitTracker /\ InitLock /\ InitRest
  /\ market = [a \in Assets |-> None]
  /\ legacy_market = None
  /\ engine_cfg \in GateConfigs
  /\ mock_trading = TRUE
  /\ \/ \E a \in Assets, d \in GateMoves : GridPrices(a, d)
     \/ ScenarioPrices
  /\ recorded = price_history

NextGate ==
  \/ \E m \in GateMarkets \cup {ScenarioMarket} : SetMarket(m)
  \/ CheckOpportunity

SpecGate == InitGate /\ [][NextGate]_vars


\* the edge check of the edge mode: moves (hundredths of a percent) that put
\* the edge at and just below each window's minimum against an ask of 0.50,
\* and a move of 10 percent, beyond the cap of the implied probability; the
\* momentum gate on (the scenario's history is the only one that passes it)
\* and off, the edge check on and off
EdgeMoves ==
  LET up == {3, 4, 9, 10, 12, 13, 33, 34, 74, 75, 1000}
  IN up \cup {-d : d \in up}
EdgeConfigs ==
  {DefaultConfig, [DefaultConfig EXCEPT !.use_momentum = FALSE],
   [DefaultConfig EXCEPT !.use_momentum = FALSE, !.use_edge_check = FALSE]}

InitEdge ==
  /\ InitTrading /\ InitTracker /\ InitLock /\ InitRest
  /\ market = [a \in Assets |-> None]
  /\ legacy_market = None
  /\ engine_cfg \in EdgeConfigs
  /\ mock_trading = TRUE
  /\ \/ \E a \in Assets, d \in EdgeMoves : GridPrices(a, d)
     \/ ScenarioPrices
  /\ recorded = price_history

SpecEdge == InitEdge /\ [][NextGate]_vars


\* both evaluations on the markets of two assets whose feeds move the price
\* down to 96 or up to 104
SidePrices == {96, 104}
SideMarkets == {Market(a, 500, 520, 15) : a \in FeedAssets}

InitSides ==
  /\ InitPrices /\ InitTrading /\ InitTracker /\ InitLock /\ InitRest
  /\ market = [a \in Assets |-> None]
  /\ legacy_market = None
  /\ engine_cfg \in GateConfigs
  /\ mock_trading = TRUE

NextSides ==
  \/ \E a \in FeedAssets, p \in SidePrices : BinanceFeed(a, p)
  \/ \E m \in SideMarkets : SetMarket(m)
  \/ \E m \in SideMarkets : SetMarketForAsset(m)
  \/ ResetInterval
  \/ CheckOpportunity
  \/ CheckAllOpportunities

SpecSides == InitSides /\ [][NextSides]_vars

\* every asset at the baseline with a 15-minute market near 50c
InitVelocity ==
  /\ InitTrading /\ InitTracker /\ InitLock /\ InitRest
  /\ market = [a \in Assets |-> Some(Market(a, 500, 520, 15))]
  /\ legacy_market = None
  /\ engine_cfg = DefaultConfig
  /\ mock_trading = TRUE
  /\ now = 0
  /\ price = [a \in Assets |-> GateBase]
  /\ interval_start_price = [a \in Assets |-> GateBase]
  /\ price_history = [a \in Assets |-> <<[p |-> GateBase, t |-> 0]>>]
  /\ recorded = price_history

NextVelocity ==
  \/ \E a \in Assets \ {"XRP"}, p \in VelocityPrices : BinanceFeed(a, p)
  \/ \E p \in XrpPrices : BinanceFeed("XRP", p)
  \/ \E d \in VelocitySteps : AdvanceClock(d)
  \/ CheckAllOpportunities

SpecVelocity == InitVelocity /\ [][NextVelocity]_vars

\* the velocity evaluation of one asset over markets priced around the
\* maximum entry price
InitEntry ==
  /\ InitTrading /\ InitTracker /\ InitLock /\ InitRest
  /\ market = [a \in Assets |-> None]
  /\ legacy_market = None
  /\ engine_cfg = DefaultConfig
  /\ mock_trading = TRUE
  /\ now = 0
  /\ price = [a \in Assets |-> GateBase]
  /\ interval_start_price = [a \in Assets |-> GateBase]
  /\ price_history = [a \in Assets |-> <<[p |-> GateBase, t |-> 0]>>]
  /\ recorded = price_history

NextEntry ==
  \/ \E p \in GuardPrices : BinanceFeed("BTC", p)
  \/ \E d \in VelocitySteps : AdvanceClock(d)
  \/ \E m \in GuardMarkets : SetMarketForAsset(m)
  \/ CheckAllOpportunities

SpecEntry == InitEntry /\ [][NextEntry]_vars

\* the trading loop with positions open and no market to trade: its check
\* tick only evaluates the exits
InitExits ==
  /\ InitPrices /\ InitTracker /\ InitLock /\ InitRest
  /\ market = [a \in Assets |-> None]
  /\ legacy_market = None
  /\ engine_cfg = DefaultConfig
  /\ mock_trading = TRUE
  /\ open_positions \in ExitBooks
  /\ trades_executed = Len(open_positions)
  /\ last_trade_time = Some(0)
  /\ closed = {}
  /\ main_pc = "select"
  /\ pending = <<>>
  /\ in_flight = None
  /\ last_exec = "none"

NextExits ==
  \/ \E a \in FeedAssets, p \in ExitPrices : BinanceFeed(a, p)
  \/ \E d \in ExitSteps : AdvanceClock(d)
  \/ CheckIntervalTick

SpecExits == InitExits /\ [][NextExits]_vars

\* the same loop whose check_interval keeps ticking: tokio's interval fires
\* again and again, and the tick branch of the select loop runs whenever the
\* loop is back at select
InitExitsLive == InitExits /\ open_positions \in LiveBooks

NextExitsLive ==
  \/ \E a \in FeedAssets, p \in LivePrices : BinanceFeed(a, p)
  \/ \E d \in ExitSteps : AdvanceClock(d)
  \/ CheckIntervalTick

SpecExitsLive == InitExitsLive /\ [][NextExitsLive]_vars /\ WF_vars(CheckIntervalTick)

\* a call of CryptoArbEngine::get_status_analysis
GetStatusAnalysis ==
  /\ status' = Some(get_status_analysis)
  /\ UNCHANGED <<now, cfgVars, callVars, priceVars, marketVars, tradeVars, loopVars, outVars,
                 trackerVars, lockVars, countVars, mapVars, last_velocity, last_momentum>>

\* the engine as CryptoArbEngine::new leaves it: no price has arrived yet
InitStatus ==
  /\ InitTrading /\ InitTracker /\ InitLock /\ InitRest
  /\ market = [a \in Assets |-> None]
  /\ legacy_market = None
  /\ engine_cfg = DefaultConfig
  /\ mock_trading = TRUE
  /\ now = 0
  /\ price = [a \in Assets |-> 0]
  /\ interval_start_price = [a \in Assets |-> 0]
  /\ price_history = [a \in Assets |-> <<>>]
  /\ recorded = price_history

NextStatus ==
  \/ \E a \in StatusAssets, p \in StatusPrices : BinanceFeed(a, p)
  \/ \E d \in VelocitySteps : AdvanceClock(d)
  \/ GetStatusAnalysis

SpecStatus == InitStatus /\ [][NextStatus]_vars


\* the engine's price state under every operation that takes its lock or
\* changes the engine: the feeds of two assets, market set and clear, both
\* baseline resets, both evaluations, the status analysis and the read
\* section of the price log
OwnerMarkets == {Market("BTC", 500, 520, 15)}
PriceLogJob == [kind |-> "price_log", asset |-> "BTC"]

NextOwner ==
  \/ \E a \in StatusAssets, p \in Prices : BinanceFeed(a, p)
  \/ \E m \in OwnerMarkets : SetMarket(m)
  \/ \E m \in OwnerMarkets : SetMarketForAsset(m)
  \/ \E a \in StatusAssets : ClearMarketForAsset(a)
  \/ ResetInterval
  \/ \E a \in StatusAssets : ResetIntervalForAsset(a)
  \/ CheckOpportunity
  \/ CheckAllOpportunities
  \/ GetStatusAnalysis
  \/ ReadAcquire(PriceLogJob)
  \/ ReadRelease

\* before the first trade of any feed, or after every feed's first trade
InitOwner ==
  \/ InitStatus
  \/ /\ InitPrices /\ InitTrading /\ InitTracker /\ InitLock /\ InitRest
     /\ market = [a \in Assets |-> None]
     /\ legacy_market = None
     /\ engine_cfg = DefaultConfig
     /\ mock_trading = TRUE

SpecOwner == InitOwner /\ [][NextOwner]_vars


\* the feed tasks and the reads of the main task, the write section in its
\* two halves
NextSnapshot ==
  \/ \E a \in FeedAssets, p \in Prices : FeedRecv(a, p)
  \/ \E a \in FeedAssets : FeedStore(a)
  \/ \E a \in FeedAssets : FeedSample(a)
  \/ \E job \in ReaderJobs : ReadAcquire(job)
  \/ ReadRelease

SpecSnapshot == InitOwner /\ [][NextSnapshot]_vars

\* a StrategyFilter built from a configuration, and the arguments its
\* check_all is about to be called with
InitFilters ==
  /\ InitPrices /\ InitTrading /\ InitTracker /\ InitLock /\ InitOutputs /\ InitMarkets
  /\ engine_cfg = DefaultConfig
  /\ mock_trading = TRUE
  /\ \E cfg \in FilterConfigs, m \in MomentumReadings, ob \in Books, v \in Volumes,
        t \in FilterTimes, y \in BOOLEAN :
       filter_call = Some([cfg |-> cfg, momentum |-> m, orderbook |-> ob, volume |-> v,
                           time |-> t, buying_yes |-> y, outcome |-> None])

\* the call of StrategyFilter::check_all, and of all_passed and
\* failure_reasons on what it returned
CheckAll ==
  /\ filter_call # None /\ filter_call[1].outcome = None
  /\ LET c == filter_call[1]
         results == check_all(c.cfg, c.momentum.momentum_score, c.momentum.consistency,
                              c.momentum.is_accelerating, c.momentum.direction_matches,
                              c.orderbook, c.volume, c.time, c.buying_yes)
     IN filter_call' = Some([c EXCEPT !.outcome =
                               Some([results |-> results,
                                     all_passed |-> all_passed(results),
                                     failure_reasons |-> failure_reasons(results)])])
  /\ UNCHANGED <<now, cfgVars, priceVars, marketVars, tradeVars, loopVars, outVars,
                 trackerVars, lockVars, countVars, sigVars, mapVars>>

NextFilters == CheckAll

SpecFilters == InitFilters /\ [][NextFilters]_vars

\* the position tracker's callers, at the grain of the map's lock
NextMapLock ==
  \/ \E op \in MapOps : MapWriteCall(op)
  \/ MapWriteGranted
  \/ CslStart
  \/ \E q \in {None} \cup {Some(x) : x \in TokenPrices} : CslFetched(q)
  \/ \E d \in AgeSteps : AdvanceClock(d)

SpecMapLock == InitDefault /\ [][NextMapLock]_vars

\* ------------------------------------------------------------------------
\* Properties
\* ------------------------------------------------------------------------
Indices(s) == 1..Len(s)
Occurs(x, s) == Cardinality({i \in Indices(s) : s[i] = x})
ExitedPositions(ex) == [k \in Indices(ex) |-> ex[k].pos]
IndexOf(x, s) == CHOOSE i \in Indices(s) : s[i] = x

NoTwoPositionsPerAsset ==
  \A i, j \in Indices(open_positions) :
     i # j => open_positions[i].asset # open_positions[j].asset

\* a position leaves open_positions only by being returned by the exit check, a
\* position enters only for an asset that had none, and each entry is one trade
OnePositionStep ==
  /\ \A i \in Indices(open_positions) :
        \/ Occurs(open_positions[i], open_positions') = 1
        \/ exits' # None /\ Occurs(open_positions[i], ExitedPositions(exits'[1])) = 1
  /\ \A j \in Indices(open_positions') :
        \/ Occurs(open_positions'[j], open_positions) = 1
        \/ \A i \in Indices(open_positions) :
              open_positions[i].asset # open_positions'[j].asset
  /\ trades_executed' - trades_executed =
       Cardinality({j \in Indices(open_positions') :
                      Occurs(open_positions'[j], open_positions) = 0})

\* C1: in the trading loop the open positions never hold two positions of one
\* asset; a position stays (and blocks its asset) until the exit check returns
\* it, and a signal for an asset that has a position records no trade.
C1_OnePositionPerAsset == []NoTwoPositionsPerAsset /\ [][OnePositionStep]_vars

\* a finished tick whose signal for an asset found an older position of that asset
C1_SignalSkipped ==
  /\ signals # None /\ exits # None /\ main_pc = "select"
  /\ \E i \in Indices(signals[1]), j \in Indices(open_positions) :
        /\ open_positions[j].asset = signals[1][i].asset
        /\ open_positions[j].entry_crypto_price # signals[1][i].crypto_price

\* the engine's StrategyFilter applied to the evaluation that produced a signal:
\* momentum of the asset's history, no order book or volume data, the wall clock
FiltersPassFor(signal) ==
  LET mom == momentum(price_history[signal.asset])
  IN all_passed(check_all(EngineStrategyConfig, mom.score, mom.consistency,
                          mom.is_accelerating, supports_direction(mom, signal.bet_up),
                          None, None, utc_start + now, signal.bet_up))

\* C2: every signal the evaluator emits has passed every enabled filter of the
\* engine's StrategyFilter.
C2_SignalsPassFilters ==
  signals # None => \A i \in Indices(signals[1]) : FiltersPassFor(signals[1][i])

\* the side of the legacy market that the edge-mode evaluation bets on
EdgeSideAsk ==
  IF is_up(legacy_market[1].asset) THEN legacy_market[1].yes_ask
  ELSE legacy_market[1].no_ask

\* the side of an asset's market that the velocity-mode evaluation bets on
VelocitySideAsk(asset) ==
  IF StrongerVelocity(price_history[asset], now)[1] > 0 THEN market[asset][1].yes_ask
  ELSE market[asset][1].no_ask

\* the edge-mode evaluation has a market, a sufficient move and no other gate on
EdgeOnlyPriceGate ==
  /\ legacy_market # None
  /\ ~engine_cfg.use_momentum /\ ~engine_cfg.use_edge_check
  /\ RatGE(RatAbs(price_change_pct(legacy_market[1].asset)),
           min_move(legacy_market[1].asset, legacy_market[1].interval_minutes))

\* C3: no signal of either evaluation mode has a buy price above 0.99; a
\* matching-side ask above 0.99 yields no signal, and an ask of exactly 0.99
\* passes the gate.
C3_MaxBuyPrice ==
  /\ last_signal # None =>
       /\ last_signal[1] # None => last_signal[1][1].buy_price <= 990
       /\ (legacy_market # None /\ EdgeSideAsk > 990) => last_signal[1] = None
       /\ (EdgeOnlyPriceGate /\ EdgeSideAsk = 990) =>
             (last_signal[1] # None /\ last_signal[1][1].buy_price = 990)
  /\ signals # None =>
       /\ \A i \in Indices(signals[1]) : signals[1][i].buy_price <= 990
       /\ \A a \in Assets :
             (market[a] # None /\ VelocitySideAsk(a) > 990) =>
                \A i \in Indices(signals[1]) : signals[1][i].asset # a

\* an edge-mode signal bought at exactly 0.99 next to a velocity-mode evaluation
\* that a 0.995 ask turned away
C3_BoundaryAndRejection ==
  /\ last_signal # None /\ last_signal[1] # None
  /\ last_signal[1][1].buy_price = 990
  /\ signals = Some(<<>>)
  /\ market["BTC"] # None /\ VelocitySideAsk("BTC") = 995
  /\ RatGE(RatAbs(StrongerVelocity(price_history["BTC"], now)), min_velocity("BTC"))

SizeWithinLimits(signal) ==
  /\ RatLE(<<engine_cfg.min_position_usd, 1>>, signal.recommended_size_usd)
  /\ RatLE(signal.recommended_size_usd, <<engine_cfg.max_position_usd, 1>>)

\* C4 as stated: under any configured limits the size of an edge-mode signal
\* lies between min_position_usd and max_position_usd.
C4_SizeWithinAnyLimits ==
  (last_signal # None /\ last_signal[1] # None) => SizeWithinLimits(last_signal[1][1])

\* C4 amended: when min_position_usd <= max_position_usd, the size of an
\* edge-mode signal lies between min_position_usd and max_position_usd.
C4_SizeWithinOrderedLimits ==
  (/\ last_signal # None /\ last_signal[1] # None
   /\ engine_cfg.min_position_usd <= engine_cfg.max_position_usd)
     => SizeWithinLimits(last_signal[1][1])

\* an edge-mode signal with a negative edge, sized up to the minimum
C4_NegativeEdgeSized ==
  /\ last_signal # None /\ last_signal[1] # None
  /\ engine_cfg.min_position_usd <= engine_cfg.max_position_usd
  /\ last_signal[1][1].edge_pct[1] < 0
  /\ last_signal[1][1].recommended_size_usd = <<engine_cfg.min_position_usd, 1>>

\* C5: a trade is recorded only in mock mode or when the venue accepted the order.
C5_RecordOnlyOnSuccess ==
  [][trades_executed' # trades_executed => (mock_trading \/ last_exec' = "success")]_vars

\* a step that ends a check tick
TickEnds ==
  /\ CheckIntervalTick \/ \E r \in Responses : ExecuteTradeDone(r)
  /\ main_pc' = "select"

\* the exit check of a tick splits the positions that were open before it
ExitPartitionStep ==
  /\ \A i \in Indices(open_positions) :
        Occurs(open_positions[i], ExitedPositions(exits'[1]))
          + Occurs(open_positions[i], open_positions') = 1
  /\ \A k \in Indices(exits'[1]) :
        /\ Occurs(exits'[1][k].pos, open_positions) = 1
        /\ exits'[1][k].reason \in {"TAKE PROFIT", "STOP LOSS", "TIME EXIT"}
        /\ exits'[1][k].pnl_pct = effective_pnl_pct(exits'[1][k].pos,
                                                    price[exits'[1][k].pos.asset])
  /\ \A i, j \in Indices(open_positions) :
        (/\ i < j
         /\ Occurs(open_positions[i], open_positions') = 1
         /\ Occurs(open_positions[j], open_positions') = 1)
          => IndexOf(open_positions[i], open_positions')
               < IndexOf(open_positions[j], open_positions')

\* C6: one exit check returns each open position exactly once (with a reason
\* and its P&L) or keeps it, never both and never neither, and keeps the order
\* of the kept positions.
C6_ExitPartition == [][TickEnds => ExitPartitionStep]_vars

\* a finished tick that returned a position and kept an older one
C6_ExitedAndKept ==
  /\ exits # None /\ exits[1] # <<>>
  /\ \E j \in Indices(open_positions) : open_positions[j].entry_time < now

\* C7: the exit check never returns a position held for less than 20 s,
\* whatever its P&L, and also when its time-exit limit (here 0 s) is reached.
C7_MinHold ==
  /\ exits # None =>
       \A k \in Indices(exits[1]) : now - exits[1][k].pos.entry_time >= 20
  /\ \A k \in Indices(check_exits_multi(open_positions, price, now).exits) :
       now - check_exits_multi(open_positions, price, now).exits[k].pos.entry_time >= 20
  /\ \A j \in Indices(open_positions) :
       now - open_positions[j].entry_time < 20 =>
         ExitDecision([open_positions[j] EXCEPT !.interval_minutes = 0],
                      price[open_positions[j].asset], now) = "HOLD"

\* a finished tick that kept a young position beyond take-profit or stop-loss
C7_YoungKeptBeyondThreshold ==
  /\ exits # None /\ main_pc = "select"
  /\ \E j \in Indices(open_positions) :
        LET pos == open_positions[j]
            pnl == effective_pnl_pct(pos, price[pos.asset])
        IN /\ now - pos.entry_time < 20
           /\ (RatGE(pnl, <<8, 1>>) \/ RatLE(pnl, <<-6, 1>>))

\* a long position lost 5% or more of its entry price: 20 * current <= 19 * entry
LostFivePercent(pos, q) ==
  /\ pos.entry_price[1] # 0
  /\ 20 * q[1] * pos.entry_price[2] <= 19 * pos.entry_price[1] * q[2]

\* C8: should_stop_loss is true exactly when the position is at least 30 s old
\* and has lost at least 5%: entry 0.50 triggers at 0.475, not at 0.48, and a
\* younger position never triggers; check_stop_losses returns exactly those.
C8_StopLossExact ==
  /\ \A k \in Tokens, q \in TokenPrices :
        positions[k] # None =>
          /\ should_stop_loss(positions[k][1], q, now)
               <=> (now - positions[k][1].opened_at >= 30 /\ LostFivePercent(positions[k][1], q))
          /\ (positions[k][1].entry_price = <<1, 2>> /\ now - positions[k][1].opened_at >= 30)
               => (/\ should_stop_loss(positions[k][1], <<19, 40>>, now)
                   /\ ~should_stop_loss(positions[k][1], <<12, 25>>, now))
  /\ to_sell # None =>
       {x.token_id : x \in to_sell[1].sells}
         = {k \in Tokens : /\ positions[k] # None
                            /\ to_sell[1].quotes[k] # None
                            /\ now - positions[k][1].opened_at >= 30
                            /\ LostFivePercent(positions[k][1], to_sell[1].quotes[k][1])}

\* a check that sold a 0.50 position at 0.475 and spared a younger one at 0.475
C8_BoundarySoldYoungSpared ==
  /\ to_sell # None
  /\ \E x \in to_sell[1].sells :
        x.position.entry_price = <<1, 2>> /\ x.current_price = <<19, 40>>
  /\ \E k \in Tokens :
        /\ positions[k] # None
        /\ now - positions[k][1].opened_at < 30
        /\ to_sell[1].quotes[k] = Some(<<19, 40>>)
        /\ positions[k][1].entry_price = <<1, 2>>

\* C9: a refresh in progress does not keep a check tick from being processed,
\* and a check tick in progress does not keep a refresh from starting.
C9_TickAndRefreshIndependent ==
  /\ main_pc = "refresh_wait" => ENABLED CheckIntervalTick
  /\ (main_pc = "trade_wait" /\ nrefresh < MaxRefresh) => ENABLED MarketRefreshStart

\* C10: a feed task never waits for the write guard while a read guard of the
\* main task (evaluation, status analysis, price log) is held.
C10_FeedNeverWaitsOnReader ==
  \A a \in FeedAssets : feed_pc[a] = "write_wait" => rw_readers = 0

\* C11: no lock is held across an I/O wait: while check_stop_losses awaits
\* price_fetcher.get_current_price it holds no guard of the position map, and
\* no caller of add_position / reduce_position / remove_position waits for it
C11_NoLockAcrossFetch ==
  csl_pc = "fetch_wait" => (map_readers = 0 /\ mut_pc # "write_wait")

\* the last n elements of a sequence
LastN(q, n) == SubSeq(q, Len(q) - n + 1, Len(q))

HistoryIsWindow(a) ==
  LET h == price_history[a]
      k == Len(recorded[a])
  IN /\ Len(h) <= MOMENTUM_WINDOW_SIZE
     /\ h = LastN(recorded[a], Min2(k, MOMENTUM_WINDOW_SIZE))
     /\ \A i \in 1..(Len(h) - 1) : h[i].t <= h[i + 1].t

EvictsOldest(a) ==
  (Len(recorded'[a]) = Len(recorded[a]) + 1 /\ Len(price_history[a]) = MOMENTUM_WINDOW_SIZE)
    => price_history'[a] = Append(Tail(price_history[a]), recorded'[a][Len(recorded'[a])])

\* C12: after any sequence of add_price_sample calls each asset's history has
\* at most MOMENTUM_WINDOW_SIZE samples and is exactly the most recent
\* min(k, 20) samples recorded for the asset, in arrival order with
\* non-decreasing timestamps; on overflow the oldest sample is the one evicted
C12_HistoryIsLastSamples ==
  /\ [](\A a \in Assets : HistoryIsWindow(a))
  /\ [][\A a \in Assets : EvictsOldest(a)]_vars

\* more than 20 samples were recorded for an asset and one was evicted
C12_Overflowed ==
  \E a \in Assets : /\ Len(recorded[a]) > MOMENTUM_WINDOW_SIZE
                    /\ Len(price_history[a]) = MOMENTUM_WINDOW_SIZE
                    /\ price_history[a][1] # recorded[a][1]

\* the history the last velocity_pct / momentum call looked at
VelocityHistory == price_history[last_velocity[1].asset]
MomentumHistory == price_history[last_momentum[1].asset]

\* C13: with exactly two samples, at t=0 (price P0) and t=10 s (price P1),
\* velocity_pct(asset, 5) evaluated at t=10 s starts from P0 and returns
\* (P1 - P0)/P0*100
C13_TwoSamplesStartAtFirst ==
  (/\ last_velocity # None
   /\ last_velocity[1].window_secs = 5
   /\ now = 10
   /\ Len(VelocityHistory) = 2
   /\ VelocityHistory[1].t = 0 /\ VelocityHistory[2].t = 10
   /\ VelocityHistory[1].p > 0)
  => last_velocity[1].value
       = Rat((VelocityHistory[2].p - VelocityHistory[1].p) * 100, VelocityHistory[1].p)

\* the start price the window rule names: the oldest sample inside
\* [t - w, t], the oldest sample of the history when none is inside
WindowStart(h, t, w) ==
  LET inside == {i \in 1..Len(h) : h[i].t >= t - w /\ h[i].t <= t}
  IN IF inside = {} THEN h[1].p
     ELSE h[CHOOSE i \in inside : \A j \in inside : i <= j].p

\* C14: velocity_pct returns 0 on fewer than 2 samples; otherwise it measures
\* from the oldest sample inside [now - window, now], and from the oldest
\* sample of the history when no sample is inside the window: the result is
\* (newest - start)/start*100 (0 only through the guard on a start price of 0)
C14_VelocityWindow ==
  last_velocity # None =>
    LET h == VelocityHistory
        v == last_velocity[1].value
    IN IF Len(h) < 2 THEN v = Zero
       ELSE LET start == WindowStart(h, now, last_velocity[1].window_secs)
            IN v = IF start = 0 THEN Zero ELSE Rat((h[Len(h)].p - start) * 100, start)

\* a quiet feed: no sample inside the window, the velocity is measured from
\* the oldest sample and is not 0
C14_QuietFeedFallsBack ==
  /\ last_velocity # None
  /\ Len(VelocityHistory) >= 2
  /\ \A i \in 1..Len(VelocityHistory) :
       VelocityHistory[i].t < now - last_velocity[1].window_secs
  /\ last_velocity[1].value # Zero
  /\ last_velocity[1].value
       = Rat((VelocityHistory[Len(VelocityHistory)].p - VelocityHistory[1].p) * 100,
             VelocityHistory[1].p)

AllSamePrice(h) == \A i, j \in 1..Len(h) : h[i].p = h[j].p

\* C15: on a history of identical prices velocity_pct is 0 for every window
\* and momentum has score 0, is not accelerating and is Neutral; no history,
\* a price of 0 included, makes velocity_pct or momentum divide by zero
\* (every number they return or build has a non-zero denominator)
C15_FlatIsZeroNoDivisionByZero ==
  /\ last_velocity # None =>
       /\ last_velocity[1].value[2] > 0
       /\ AllSamePrice(VelocityHistory) => last_velocity[1].value = Zero
  /\ last_momentum # None =>
       /\ last_momentum[1].value.score[2] > 0
       /\ last_momentum[1].value.consistency[2] > 0
       /\ \A i \in 1..Len(Changes(MomentumHistory)) : Changes(MomentumHistory)[i][2] > 0
       /\ AllSamePrice(MomentumHistory) =>
            /\ last_momentum[1].value.score = Zero
            /\ ~last_momentum[1].value.is_accelerating
            /\ last_momentum[1].value.direction = "Neutral"

\* momentum was asked on three identical prices, velocity on a history whose
\* start price is 0 and whose newest price is not
C15_FlatAndZeroStart ==
  /\ last_momentum # None
  /\ Len(MomentumHistory) >= 3 /\ AllSamePrice(MomentumHistory)
  /\ MomentumHistory[1].p > 0
  /\ last_velocity # None
  /\ Len(VelocityHistory) >= 2
  /\ VelocityHistory[1].p = 0
  /\ VelocityHistory[Len(VelocityHistory)].p > 0

StrictlyIncreasing(h) == \A i \in 1..(Len(h) - 1) : h[i].p < h[i + 1].p

\* the mean of the per-step percentage changes of a history of positive prices
MeanStep(h) ==
  RatDivInt(RatSum([i \in 1..(Len(h) - 1) |-> Rat((h[i + 1].p - h[i].p) * 100, h[i].p)]),
            Len(h) - 1)

\* C16 as stated: every history of at least 3 strictly increasing prices,
\* whatever the step sizes, gives direction Up and consistency 1.0
C16_IncreasingIsUp ==
  (last_momentum # None /\ Len(MomentumHistory) >= 3 /\ StrictlyIncreasing(MomentumHistory))
  => /\ last_momentum[1].value.direction = "Up"
     /\ last_momentum[1].value.consistency = <<1, 1>>

\* C16 amended: every history of at least 3 strictly increasing prices gives
\* consistency 1.0, and direction Up exactly when the mean per-step change
\* exceeds the dead zone of 0.001 percent, Neutral otherwise
C16_IncreasingIsUpBeyondDeadZone ==
  (last_momentum # None /\ Len(MomentumHistory) >= 3 /\ StrictlyIncreasing(MomentumHistory))
  => /\ last_momentum[1].value.consistency = <<1, 1>>
     /\ last_momentum[1].value.direction \in {"Up", "Neutral"}
     /\ MomentumHistory[1].p > 0 =>
          (last_momentum[1].value.direction = "Up"
             <=> RatGT(MeanStep(MomentumHistory), <<1, 1000>>))

\* three strictly increasing prices whose steps stay inside the dead zone
C16_TinyStepsNeutral ==
  /\ last_momentum # None
  /\ Len(MomentumHistory) >= 3 /\ StrictlyIncreasing(MomentumHistory)
  /\ last_momentum[1].value.direction = "Neutral"
  /\ last_momentum[1].value.consistency = <<1, 1>>

\* C17: on fewer than 3 samples momentum returns the zero/neutral signal
\* (score 0, not accelerating, consistency 0, Neutral) whatever the prices
C17_FewSamplesNeutral ==
  (last_momentum # None /\ Len(MomentumHistory) < 3)
  => /\ last_momentum[1].value.score = Zero
     /\ last_momentum[1].value.is_accelerating = FALSE
     /\ last_momentum[1].value.consistency = Zero
     /\ last_momentum[1].value.direction = "Neutral"

\* momentum was asked on two samples of different prices
C17_TwoDifferentSamples ==
  /\ last_momentum # None
  /\ Len(MomentumHistory) = 2
  /\ MomentumHistory[1].p > 0
  /\ MomentumHistory[2].p > MomentumHistory[1].p

\* equality of two rationals, reduced or not
RatEq(a, b) == a[1] * b[2] = b[1] * a[2]

\* |price - baseline| / baseline * 100 of the legacy market's asset
LegacyAbsChange ==
  LET a == legacy_market[1].asset
  IN Rat(Abs(price[a] - interval_start_price[a]) * 100, interval_start_price[a])

\* check_opportunity was called with a market and both prices present
EdgeEvaluated ==
  /\ last_signal # None
  /\ legacy_market # None
  /\ price[legacy_market[1].asset] # 0
  /\ interval_start_price[legacy_market[1].asset] # 0

\* C18: for every (asset, window) cell of the threshold table check_opportunity
\* rejects at the minimum-move gate iff |change_pct| is strictly below the
\* cell's value: a smaller change gives no signal, a change equal to or above
\* the value passes the gate (and, the other gates being open, gives a
\* signal); BTC / 15 minutes passes at exactly 0.04 percent
C18_MinMoveGate ==
  EdgeEvaluated =>
    LET m == legacy_market[1]
        cell == min_move(m.asset, m.interval_minutes)
        open == /\ ~engine_cfg.use_momentum /\ ~engine_cfg.use_edge_check
                /\ m.yes_ask <= MAX_BUY_PRICE /\ m.no_ask <= MAX_BUY_PRICE
    IN /\ RatLT(LegacyAbsChange, cell) => last_signal[1] = None
       /\ (RatGE(LegacyAbsChange, cell) /\ open) => last_signal[1] # None
       /\ (m.asset = "BTC" /\ m.interval_minutes = 15 /\ RatEq(LegacyAbsChange, <<4, 100>>)
           /\ open)
            => last_signal[1] # None

\* a change of exactly the cell's value passed the gate, in a cell of the
\* default column
C18_ExactThresholdPasses ==
  /\ EdgeEvaluated
  /\ legacy_market[1].asset = "SOL"
  /\ legacy_market[1].interval_minutes = 30
  /\ RatEq(LegacyAbsChange, min_move("SOL", 30))
  /\ last_signal[1] # None

\* the state of the end-to-end scenario
ScenarioState ==
  /\ legacy_market = Some(ScenarioMarket)
  /\ interval_start_price["BTC"] = 100000
  /\ price["BTC"] = 100400
  /\ engine_cfg.use_momentum /\ engine_cfg.use_edge_check
  /\ LET mom == momentum(price_history["BTC"])
     IN /\ is_strong(mom) /\ mom.is_accelerating
        /\ mom.direction = "Up" /\ mom.consistency = <<1, 1>>

\* C19: baseline 100,000, price 100,400 (+0.4%), a 15-minute market with a
\* yes ask of 0.55, momentum and edge checks enabled, momentum strongly up,
\* accelerating and consistent: check_opportunity emits a signal with
\* bet_up, edge_pct > 0, confidence <= 100 and a size within the limits
C19_ScenarioEmitsSignal ==
  (last_signal # None /\ ScenarioState) =>
    /\ last_signal[1] # None
    /\ last_signal[1][1].bet_up
    /\ RatGT(last_signal[1][1].edge_pct, Zero)
    /\ last_signal[1][1].confidence <= 100
    /\ RatLE(<<engine_cfg.min_position_usd, 1>>, last_signal[1][1].recommended_size_usd)
    /\ RatLE(last_signal[1][1].recommended_size_usd, <<engine_cfg.max_position_usd, 1>>)

\* the signals check_all_opportunities returned for an asset
SignalsFor(a) == {i \in Indices(signals[1]) : signals[1][i].asset = a}

VelocityGateFor(a) ==
  LET v3 == velocity_pct(price_history[a], now, 3)
      v5 == velocity_pct(price_history[a], now, 5)
      larger == RatMax(RatAbs(v3), RatAbs(v5))
  IN /\ RatLT(larger, min_velocity(a)) => SignalsFor(a) = {}
     /\ RatGE(larger, min_velocity(a)) =>
          /\ SignalsFor(a) # {}
          /\ \A i \in SignalsFor(a) :
               /\ RatAbs(signals[1][i].price_change_pct) = larger
               /\ RatAbs(v3) = RatAbs(v5) => signals[1][i].price_change_pct = v5

\* C20: given a market and a non-zero price, check_opportunity_for_asset goes
\* by whichever of the 3 s and 5 s velocities has the larger magnitude (the
\* 5 s one on a tie) and returns no signal at this gate iff that magnitude is
\* strictly below the asset's threshold (BTC 0.02, ETH 0.03, SOL 0.04,
\* XRP 0.04 percent); a magnitude exactly at the threshold passes
C20_VelocityGate ==
  /\ min_velocity("BTC") = <<2, 100>> /\ min_velocity("ETH") = <<3, 100>>
  /\ min_velocity("SOL") = <<4, 100>> /\ min_velocity("XRP") = <<4, 100>>
  /\ signals # None =>
       \A a \in Assets : (market[a] # None /\ price[a] # 0) => VelocityGateFor(a)

\* the 5 s velocity of an asset is below its threshold, the 3 s velocity is
\* not, and the asset got its signal
C20_ThreeSecondsDecide ==
  /\ signals # None
  /\ \E a \in Assets :
       /\ market[a] # None
       /\ RatLT(RatAbs(velocity_pct(price_history[a], now, 5)), min_velocity(a))
       /\ RatGE(RatAbs(velocity_pct(price_history[a], now, 3)), min_velocity(a))
       /\ SignalsFor(a) # {}

\* the two velocities of an asset tie in magnitude with opposite signs, and
\* the asset got its signal
C20_TieOppositeSigns ==
  /\ signals # None
  /\ \E a \in Assets :
       /\ market[a] # None
       /\ velocity_pct(price_history[a], now, 3) # velocity_pct(price_history[a], now, 5)
       /\ RatAbs(velocity_pct(price_history[a], now, 3))
            = RatAbs(velocity_pct(price_history[a], now, 5))
       /\ SignalsFor(a) # {}


\* the ask check_opportunity_for_asset would buy at for an asset: the yes ask
\* when the chosen velocity is positive, else the no ask
ChosenAsk(a) ==
  IF StrongerVelocity(price_history[a], now)[1] > 0
  THEN market[a][1].yes_ask ELSE market[a][1].no_ask

\* the velocity of an asset is at or above its threshold
VelocityPasses(a) ==
  RatGE(RatAbs(StrongerVelocity(price_history[a], now)), min_velocity(a))

\* C21: no signal of check_opportunity_for_asset has a buy price above 0.60;
\* behind a velocity that passes its gate an ask of exactly 0.60 gets its
\* signal and an ask of 0.61 gets none, both being below the global maximum
\* buy price of 0.99
C21_MeanReversionGuard ==
  /\ 600 < MAX_BUY_PRICE /\ 610 < MAX_BUY_PRICE
  /\ signals # None =>
       /\ \A i \in Indices(signals[1]) : signals[1][i].buy_price <= 600
       /\ \A a \in Assets :
            (market[a] # None /\ price[a] # 0 /\ VelocityPasses(a)) =>
              /\ ChosenAsk(a) = 600 =>
                   \E i \in SignalsFor(a) : signals[1][i].buy_price = 600
              /\ ChosenAsk(a) = 610 => SignalsFor(a) = {}

\* a signal bought at exactly 0.60 while the other side of the market asks 0.61
C21_BoughtAtSixty ==
  /\ signals # None
  /\ market["BTC"] # None
  /\ \E i \in SignalsFor("BTC") : signals[1][i].buy_price = 600
  /\ 610 \in {market["BTC"][1].yes_ask, market["BTC"][1].no_ask}

\* the fills of a token's position are all buys (nothing was sold from it)
OnlyBought(fs) == \A i \in Indices(fs) : fs[i].shares[1] > 0

\* total cost and total shares of a list of fills
RECURSIVE TotalCost(_)
TotalCost(fs) ==
  IF fs = <<>> THEN Zero ELSE RatAdd(RatMul(fs[1].price, fs[1].shares), TotalCost(Tail(fs)))

RECURSIVE TotalShares(_)
TotalShares(fs) == IF fs = <<>> THEN Zero ELSE RatAdd(fs[1].shares, TotalShares(Tail(fs)))

\* C22: add_position on a token without a position creates a long position
\* with the fill's price and shares; on a token with a position it sets the
\* entry price to the volume-weighted average and the shares to the sum
\* (100 @ 0.50 then 100 @ 0.60 gives 0.55 and 200), so that across any
\* sequence of add_position calls entry_price * shares is the total cost of
\* the fills and shares is the total of their shares
C22_VolumeWeightedEntry ==
  \A k \in Tokens :
    /\ positions[k] # None <=> fills[k] # <<>>
    /\ (positions[k] # None /\ OnlyBought(fills[k])) =>
         LET pos == positions[k][1]
         IN /\ pos.is_long
            /\ RatEq(RatMul(pos.entry_price, pos.shares), TotalCost(fills[k]))
            /\ pos.shares = TotalShares(fills[k])
            /\ Len(fills[k]) = 1 =>
                 (pos.entry_price = fills[k][1].price /\ pos.shares = fills[k][1].shares)
            /\ fills[k] = <<[price |-> <<1, 2>>, shares |-> <<100, 1>>],
                            [price |-> <<3, 5>>, shares |-> <<100, 1>>]>> =>
                 (pos.entry_price = <<11, 20>> /\ pos.shares = <<200, 1>>)

\* a position made of two fills of different prices and different sizes
C22_UnequalFills ==
  \E k \in Tokens :
    /\ positions[k] # None /\ Len(fills[k]) = 2 /\ OnlyBought(fills[k])
    /\ fills[k][1].price # fills[k][2].price
    /\ fills[k][1].shares # fills[k][2].shares

\* what a reduce_position(k, n) step must do to the map: nothing for a token
\* that is not tracked, else shares go down by n and the position goes away
\* when nothing is left
ReduceStepOk(k, n) ==
  IF positions[k] = None THEN positions' = positions
  ELSE LET left == RatSub(positions[k][1].shares, n)
       IN /\ \A j \in Tokens \ {k} : positions'[j] = positions[j]
          /\ IF RatLE(left, Zero) THEN positions'[k] = None
             ELSE positions'[k] = Some([positions[k][1] EXCEPT !.shares = left])

\* C23: reduce_position takes shares_sold off the position's shares and
\* removes the position when zero or less is left (also when more is sold
\* than held); a token that is not tracked is left alone; after any sequence
\* of add_position, reduce_position and remove_position with positive
\* amounts no tracked position has zero or negative shares
C23_ReduceRemovesEmpty ==
  /\ [](\A k \in Tokens : positions[k] # None => RatGT(positions[k][1].shares, Zero))
  /\ [][\A k \in Tokens, n \in SoldShares : ReducePosition(k, n) => ReduceStepOk(k, n)]_vars

\* a position that two sales have brought down to less than the next sale
C23_NearlySoldOut ==
  \E k \in Tokens :
    /\ positions[k] # None
    /\ \E i \in Indices(fills[k]) : fills[k][i].shares[1] < 0
    /\ \E n \in SoldShares : RatLT(positions[k][1].shares, n)

FilterNames == {"momentum", "orderbook", "volume", "time"}

\* check_all has been called and has returned
Checked == filter_call # None /\ filter_call[1].outcome # None

\* all four filters of the configuration are switched off
AllDisabled(cfg) ==
  ~cfg.enable_momentum /\ ~cfg.enable_orderbook /\ ~cfg.enable_volume /\ ~cfg.enable_time

\* C24: all_passed() is true iff every filter with an outcome is Pass;
\* filters without an outcome never block, so with all four filters
\* disabled all_passed() is true whatever check_all was given
C24_AllPassed ==
  Checked =>
    LET c == filter_call[1]
        out == c.outcome[1]
    IN /\ out.all_passed <=>
            \A f \in FilterNames : out.results[f] # None => out.results[f] = Pass
       /\ AllDisabled(c.cfg) => out.all_passed

\* every filter is disabled and the call was given a failing momentum
\* reading, a thin book, weak volume and a time outside trading hours
C24_DisabledIgnoresBadInputs ==
  /\ Checked
  /\ LET c == filter_call[1]
     IN /\ AllDisabled(c.cfg) /\ c.outcome[1].all_passed
        /\ ~c.momentum.direction_matches
        /\ c.orderbook # None /\ c.orderbook[1].ask_depth_usd = 100
        /\ c.volume # None /\ c.volume[1].current_volume = 500
        /\ c.time = 3 * 3600


\* whether the configuration has the named filter switched on
Enabled(cfg, f) ==
  CASE f = "momentum" -> cfg.enable_momentum
    [] f = "orderbook" -> cfg.enable_orderbook
    [] f = "volume" -> cfg.enable_volume
    [] f = "time" -> cfg.enable_time

\* C25: check_all records an outcome (Pass or Fail) for every enabled filter
\* and 'not evaluated' only for disabled ones; in particular an enabled
\* order book or volume filter always has an outcome in the FilterResults
C25_EnabledFiltersHaveOutcome ==
  Checked =>
    \A f \in FilterNames :
      Enabled(filter_call[1].cfg, f) <=> filter_call[1].outcome[1].results[f] # None

\* the filters in the order of the report, and the name each is reported under
FilterOrder == <<"momentum", "orderbook", "volume", "time">>
ReportName(f) ==
  CASE f = "momentum" -> "Momentum" [] f = "orderbook" -> "Orderbook"
    [] f = "volume" -> "Volume" [] f = "time" -> "Time"

\* the filters of a FilterResults whose outcome is Fail, in report order
FailedFilters(results) ==
  LET failed(f) == results[f] # None /\ results[f][1] = "Fail"
  IN SelectSeq(FilterOrder, failed)

\* C26: failure_reasons() has exactly one entry per filter whose outcome is
\* Fail, each prefixed with the filter's name and carrying its reason, in the
\* order Momentum, Orderbook, Volume, Time, and none for passing or
\* unevaluated filters; so it is empty iff all_passed() is true
C26_FailureReasons ==
  Checked =>
    LET out == filter_call[1].outcome[1]
        failed == FailedFilters(out.results)
    IN /\ Len(out.failure_reasons) = Len(failed)
       /\ \A i \in Indices(failed) :
            out.failure_reasons[i] = <<ReportName(failed[i]), out.results[failed[i]][2]>>
       /\ out.failure_reasons = <<>> <=> out.all_passed

\* momentum and time fail while the order book filter between them passes
C26_TwoReasonsAroundAPass ==
  /\ Checked
  /\ LET out == filter_call[1].outcome[1]
     IN /\ Len(out.failure_reasons) = 2
        /\ out.failure_reasons[1][1] = "Momentum" /\ out.failure_reasons[2][1] = "Time"
        /\ out.results.orderbook = Pass

\* the conditions of the momentum filter on the reading of a call
TooWeak(c) == RatLT(RatAbs(c.momentum.momentum_score), c.cfg.min_score)
NotConsistent(c) == RatLT(c.momentum.consistency, c.cfg.min_consistency)
Decelerating(c) == c.cfg.require_acceleration /\ ~c.momentum.is_accelerating

\* C27: SmartMomentumFilter::check passes iff the direction matches and
\* |score| >= min_score and consistency >= min_consistency and acceleration
\* is either not required or present; when several conditions fail the
\* reason is the first in the order direction mismatch, too weak, not
\* consistent, decelerating
C27_MomentumFilter ==
  (Checked /\ filter_call[1].cfg.enable_momentum) =>
    LET c == filter_call[1]
        r == c.outcome[1].results.momentum
    IN /\ r = Pass <=> (/\ c.momentum.direction_matches /\ ~TooWeak(c)
                        /\ ~NotConsistent(c) /\ ~Decelerating(c))
       /\ r # Pass =>
            r = Fail(IF ~c.momentum.direction_matches THEN "direction"
                     ELSE IF TooWeak(c) THEN "too weak"
                     ELSE IF NotConsistent(c) THEN "not consistent"
                     ELSE "decelerating")

\* a reading that is too weak, not consistent and decelerating at once, in
\* the right direction, was turned away as too weak
C27_SeveralConditionsFail ==
  /\ Checked /\ filter_call[1].cfg.enable_momentum
  /\ LET c == filter_call[1]
     IN /\ c.momentum.direction_matches
        /\ TooWeak(c) /\ NotConsistent(c) /\ Decelerating(c)
        /\ c.outcome[1].results.momentum = Fail("too weak")

\* the assets a price has arrived for
HaveData == {a \in Assets : price[a] # 0}

\* the velocity of an asset is at or above the threshold of the report
AtThreshold(a) ==
  RatGE(RatAbs(StrongerVelocity(price_history[a], now)), min_velocity(a))

QuietVerdicts == {"VERY QUIET", "MODERATELY QUIET"}

\* C28: the status report tells a quiet market, detected signals and no data
\* apart: the verdict is SIGNALS DETECTED iff some asset with price data has
\* |velocity| >= its threshold, a quiet verdict is given only when the
\* assets that have data are all below threshold, and a state in which no
\* asset has price data is not reported with a quiet verdict
C28_ThreeWayVerdict ==
  status # None =>
    /\ status[1].verdict = "SIGNALS DETECTED" <=> \E a \in HaveData : AtThreshold(a)
    /\ status[1].verdict \in QuietVerdicts => \A a \in HaveData : ~AtThreshold(a)
    /\ HaveData = {} => status[1].verdict \notin QuietVerdicts

\* the hold time of an open position has reached MAX_HOLD_MULTIPLIER of its
\* market's interval
HeldForAnnouncedTime(pos) ==
  (now - pos.entry_time) * MAX_HOLD_MULTIPLIER[2]
    >= pos.interval_minutes * 60 * MAX_HOLD_MULTIPLIER[1]

\* the position is past the minimum hold time and has hit neither
\* take-profit nor stop-loss
HeldWithinBand(pos) ==
  /\ now - pos.entry_time >= MIN_HOLD_SECS
  /\ RatLT(effective_pnl_pct(pos, price[pos.asset]), <<TAKE_PROFIT_PCT, 1>>)
  /\ RatGT(effective_pnl_pct(pos, price[pos.asset]), <<STOP_LOSS_PCT, 1>>)

\* C29: a position past the minimum hold time that has hit neither
\* take-profit nor stop-loss is exited with TIME EXIT once its hold time
\* reaches 60 percent of its market's interval, and not before: after an
\* exit check no such position is still open, and every TIME EXIT is of a
\* position held that long
C29_TimeExitAtSixtyPercent ==
  exits # None =>
    /\ \A i \in Indices(open_positions) :
         HeldWithinBand(open_positions[i]) => ~HeldForAnnouncedTime(open_positions[i])
    /\ \A i \in Indices(exits[1]) :
         exits[1][i].reason = "TIME EXIT" =>
           (HeldWithinBand(exits[1][i].pos) /\ HeldForAnnouncedTime(exits[1][i].pos))

\* C30: once a trade is recorded no further trade on any asset is recorded
\* by the trading loop until min_trade_interval (30 s) has passed: a step
\* records at most one trade, a trade that follows another comes at least
\* 30 s after it, and any two open positions were entered 30 s apart
C30_RapidFireGuard ==
  /\ [](\A i \in Indices(open_positions), j \in Indices(open_positions) :
          i < j => open_positions[j].entry_time - open_positions[i].entry_time
                     >= min_trade_interval)
  /\ [][trades_executed' > trades_executed =>
          /\ trades_executed' = trades_executed + 1
          /\ last_trade_time # None =>
               last_trade_time'[1] - last_trade_time[1] >= min_trade_interval]_vars

\* twice the percentage change of the position's own asset since entry,
\* negated for a down bet
AmplifiedPnl(pos) ==
  LET change == Rat((price[pos.asset] - pos.entry_crypto_price) * 100, pos.entry_crypto_price)
  IN IF pos.direction_up THEN RatMul(<<2, 1>>, change) ELSE RatMul(<<-2, 1>>, change)

\* the hold time of a position has reached the limit check_exits_multi applies
HoldLimitReached(pos) == (now - pos.entry_time) * 10 >= pos.interval_minutes * 60 * 8

\* the one reason a position past the minimum hold is closed for, or "KEEP"
ReasonFor(pos) ==
  IF RatGE(AmplifiedPnl(pos), <<8, 1>>) THEN "TAKE PROFIT"
  ELSE IF RatLE(AmplifiedPnl(pos), <<-6, 1>>) THEN "STOP LOSS"
  ELSE IF HoldLimitReached(pos) THEN "TIME EXIT"
  ELSE "KEEP"

\* C31: for a position past the minimum hold check_exits_multi gives exactly
\* one of TAKE PROFIT (effective P&L >= +8), else STOP LOSS (<= -6), else
\* TIME EXIT (hold-time limit reached), else keeps it; the effective P&L is
\* 2 x the percentage change of the position's own asset since entry for an
\* up bet and -2 x that change for a down bet
C31_ExitReasonPriority ==
  exits # None =>
    /\ \A i \in Indices(exits[1]) :
         LET x == exits[1][i]
         IN /\ now - x.pos.entry_time >= MIN_HOLD_SECS
            /\ x.reason = ReasonFor(x.pos)
            /\ x.reason \in {"TAKE PROFIT", "STOP LOSS", "TIME EXIT"}
            /\ x.pnl_pct = AmplifiedPnl(x.pos)
    /\ \A i \in Indices(open_positions) :
         now - open_positions[i].entry_time >= MIN_HOLD_SECS
           => ReasonFor(open_positions[i]) = "KEEP"

\* a down bet closed for TAKE PROFIT although its hold-time limit was
\* reached as well
C31_ProfitBeforeTime ==
  /\ exits # None
  /\ \E i \in Indices(exits[1]) :
       /\ exits[1][i].reason = "TAKE PROFIT" /\ HoldLimitReached(exits[1][i].pos)
       /\ ~exits[1][i].pos.direction_up

\* the positions an exit check has returned so far
ClosedPositions == {c.pos : c \in closed}

\* C32: a position returned by an exit check is never open and never
\* returned again; an open position for the asset of a closed one was
\* recorded at or after the check that closed that one, which came after the
\* closed position's own entry, so it is a new position and not the old one
C32_ClosedIsTerminal ==
  /\ [](\A c \in closed : \A i \in Indices(open_positions) :
          /\ open_positions[i] # c.pos
          /\ open_positions[i].asset = c.pos.asset =>
               (/\ open_positions[i].entry_time >= c.at
                /\ c.at > c.pos.entry_time))
  /\ [][(exits' # None /\ exits' # exits) =>
          \A i \in Indices(exits'[1]) : exits'[1][i].pos \notin ClosedPositions]_vars

\* a new position is open for an asset whose earlier position was closed
C32_ReopenedAfterClose ==
  \E c \in closed : \E i \in Indices(open_positions) :
    open_positions[i].asset = c.pos.asset

\* the position is open
IsOpen(pos) == \E i \in Indices(open_positions) : open_positions[i] = pos

\* the position's hold time is at least the minimum hold and its time limit
DueForClose(pos) == now - pos.entry_time >= MIN_HOLD_SECS /\ HoldLimitReached(pos)

\* C33: while check ticks keep coming every recorded position is eventually
\* closed: an exit check leaves no position open whose hold time is at least
\* the minimum hold (20 s) and its time limit, however prices moved, so a
\* position that is due is returned by the next check
C33_EventuallyClosed ==
  /\ [](exits # None => \A i \in Indices(open_positions) : ~DueForClose(open_positions[i]))
  /\ \A pos \in UNION {{b[i] : i \in 1..Len(b)} : b \in LiveBooks} :
       (IsOpen(pos) /\ DueForClose(pos)) ~> (pos \in ClosedPositions)

\* a position whose asset never traded away from the entry price was closed
\* at its time limit
C33_ClosedWithoutPriceMove ==
  \E c \in closed :
    /\ nfeeds = 0
    /\ c.at - c.pos.entry_time >= MIN_HOLD_SECS
    /\ (c.at - c.pos.entry_time) * 10 >= c.pos.interval_minutes * 60 * 8

\* a step of the feed task of the asset
FeedStepOf(asset) == \E p \in Prices : BinanceFeed(asset, p)

\* a step of an operation other than a feed's
OtherStep ==
  \/ CheckOpportunity \/ CheckAllOpportunities \/ GetStatusAnalysis
  \/ ReadAcquire(PriceLogJob) \/ ReadRelease
  \/ \E m \in OwnerMarkets : SetMarket(m) \/ SetMarketForAsset(m)
  \/ \E a \in StatusAssets : ClearMarketForAsset(a)
  \/ ResetInterval
  \/ \E a \in StatusAssets : ResetIntervalForAsset(a)

\* C34: an asset's price and price history are changed only by a step of
\* that asset's feed; evaluation in both modes, the status analysis, price
\* logging, market set and clear and both baseline resets leave every price
\* and history unchanged, and a feed step of one asset leaves the price,
\* baseline and history of every other asset unchanged
C34_SingleWriter ==
  [][/\ \A a \in Assets :
          (price'[a] # price[a] \/ price_history'[a] # price_history[a])
            => (a \in StatusAssets /\ FeedStepOf(a))
     /\ OtherStep => UNCHANGED <<price, price_history>>
     /\ \A a \in StatusAssets :
          FeedStepOf(a) =>
            \A b \in Assets \ {a} :
              /\ price'[b] = price[b]
              /\ interval_start_price'[b] = interval_start_price[b]
              /\ price_history'[b] = price_history[b]]_vars

\* BTC has traded, ETH has not, and an evaluation, a status analysis and a
\* price log have run since
C34_OnlyBtcWritten ==
  /\ price["BTC"] # 0 /\ price_history["BTC"] # <<>>
  /\ price["ETH"] = 0 /\ price_history["ETH"] = <<>>
  /\ signals # None /\ status # None /\ nops > 0

\* C36: a sample that arrives while its asset's baseline is 0 sets the
\* baseline to the sample's price; a sample that arrives while the baseline
\* is not 0 leaves the baseline as it was
C36_ImplicitBaseline ==
  [][\A a \in StatusAssets, p \in Prices :
       BinanceFeed(a, p) =>
         interval_start_price'[a] =
           IF interval_start_price[a] = 0 THEN p ELSE interval_start_price[a]]_vars

\* BTC's second sample carried another price than the first and the
\* baseline still is the first one
C36_SecondSampleKeepsBaseline ==
  /\ Len(price_history["BTC"]) = 2
  /\ interval_start_price["BTC"] = price_history["BTC"][1].p
  /\ price["BTC"] # interval_start_price["BTC"]

\* C37: reset_interval_for_asset sets the asset's baseline to its current
\* price, so that its interval change is 0 afterwards, and leaves the other
\* baselines; reset_interval does the same for every asset; neither changes
\* a price or a history
C37_ResetBaselines ==
  [][/\ \A a \in StatusAssets :
          ResetIntervalForAsset(a) =>
            /\ interval_start_price'[a] = price[a]
            /\ price_change_pct(a)' = Zero
            /\ \A b \in Assets \ {a} : interval_start_price'[b] = interval_start_price[b]
            /\ UNCHANGED <<price, price_history>>
     /\ ResetInterval =>
          /\ \A a \in Assets : interval_start_price'[a] = price[a] /\ price_change_pct(a)' = Zero
          /\ UNCHANGED <<price, price_history>>]_vars

\* BTC's baseline was moved to its second price while ETH, which also has
\* moved since its first sample, kept its baseline
C37_OneBaselineMoved ==
  /\ price_history["BTC"] # <<>> /\ price_history["BTC"][1].p # price["BTC"]
  /\ interval_start_price["BTC"] = price["BTC"]
  /\ interval_start_price["ETH"] # 0 /\ interval_start_price["ETH"] # price["ETH"]

\* the asset's price is the price of the newest sample of its history, or
\* it is 0 and the history is empty
SnapshotConsistent(asset) ==
  IF price_history[asset] = <<>> THEN price[asset] = 0
  ELSE price[asset] = price_history[asset][Len(price_history[asset])].p

\* C35: a feed sample's price, baseline and history entry are written under
\* one write guard, and a reader that holds the read guard sees, for every
\* asset, the price equal to the price of the newest history sample (or
\* price 0 and an empty history)
C35_ConsistentSnapshot ==
  /\ [](reader_pc = "reading" => \A a \in Assets : SnapshotConsistent(a))
  /\ [](\A a \in FeedAssets :
          feed_pc[a] = "sampling" => (rw_writer = Some(a) /\ rw_readers = 0))
  /\ [][(price' # price \/ interval_start_price' # interval_start_price
           \/ price_history' # price_history)
          => (rw_writer # None /\ rw_readers = 0 /\ reader_pc # "reading")]_vars

\* the reader holds the read guard after a feed has written a sample, and
\* the other feed waits for the guard with its sample
C35_ReadBetweenWrites ==
  /\ reader_pc = "reading"
  /\ \E a \in FeedAssets : Len(recorded[a]) > 0 /\ price[a] = 104
  /\ \E a \in FeedAssets : feed_pc[a] = "write_wait"

\* the signal of the last call of check_opportunity, if it gave one
EdgeSignal == IF last_signal # None /\ last_signal[1] # None THEN last_signal[1] ELSE None

\* the minimum edge of a window, in percent
WindowMinEdge(interval_minutes) ==
  CASE interval_minutes = 5 -> <<3, 10>>
    [] interval_minutes = 15 -> <<1, 2>>
    [] interval_minutes = 60 -> <<1, 1>>
    [] interval_minutes = 240 -> <<3, 2>>
    [] OTHER -> <<1, 2>>

\* 0.5 + min(|change_pct| * prob_multiplier * momentum_boost, 45) / 100 for
\* the signal and the market it was evaluated against
ImpliedProb(s, m) ==
  LET mom == momentum(price_history[s.asset])
      boost == IF is_strong(mom) /\ mom.is_accelerating THEN <<12, 10>>
               ELSE IF is_strong(mom) THEN <<11, 10>> ELSE <<1, 1>>
      moved == RatMul(RatMul(RatAbs(s.price_change_pct),
                             <<prob_multiplier(m.interval_minutes), 1>>), boost)
  IN RatAdd(<<1, 2>>, RatDivInt(RatMin(moved, <<45, 1>>), 100))

\* C38: in edge mode every signal's edge_pct is (implied_prob - ask) * 100
\* with implied_prob = 0.5 + min(|change| * prob_multiplier * momentum_boost,
\* 45) / 100, which lies in [0.5, 0.95]; with the edge check enabled the edge
\* is at least the window's minimum (0.3, 0.5, 1.0, 1.5 percent for 5, 15,
\* 60, 240 minutes, 0.5 otherwise); with the check disabled signals with a
\* smaller and with a negative edge are emitted (EdgeNegativeUnchecked)
C38_EdgeAtLeastMinimum ==
  \A s \in {EdgeSignal[i] : i \in Indices(EdgeSignal)} :
    LET m == legacy_market[1]
        implied == ImpliedProb(s, m)
    IN /\ RatEq(s.edge_pct, RatMul(RatSub(implied, Rat(s.buy_price, 1000)), <<100, 1>>))
       /\ RatGE(implied, <<1, 2>>) /\ RatLE(implied, <<95, 100>>)
       /\ engine_cfg.use_edge_check => RatGE(s.edge_pct, WindowMinEdge(m.interval_minutes))

\* with the check enabled a 15-minute signal is emitted with an edge of
\* exactly 0.5 percent
C38_EdgeExactlyMinimum ==
  /\ engine_cfg.use_edge_check
  /\ \E i \in Indices(EdgeSignal) :
       /\ legacy_market[1].interval_minutes = 15
       /\ RatEq(EdgeSignal[i].edge_pct, <<1, 2>>)

\* with the check disabled a signal is emitted with a negative edge
EdgeNegativeUnchecked ==
  /\ ~engine_cfg.use_edge_check
  /\ \E i \in Indices(EdgeSignal) : RatLT(EdgeSignal[i].edge_pct, Zero)

\* a signal whose implied probability is capped at 0.95
EdgeCapped ==
  \E i \in Indices(EdgeSignal) : RatEq(ImpliedProb(EdgeSignal[i], legacy_market[1]), <<95, 100>>)

\* a signal whose edge carries a momentum boost
EdgeBoosted ==
  \E i \in Indices(EdgeSignal) : is_strong(momentum(price_history[EdgeSignal[i].asset]))

\* the signal bets on the side of its trigger, with that side's token and
\* ask of the market, and carries the market's asset
SideOf(s, m, trigger) ==
  /\ s.asset = m.asset
  /\ trigger[1] # 0
  /\ IF trigger[1] > 0
     THEN s.bet_up /\ s.token_id = m.yes_token_id /\ s.buy_price = m.yes_ask
     ELSE ~s.bet_up /\ s.token_id = m.no_token_id /\ s.buy_price = m.no_ask

\* C39: in both modes a signal has bet_up, the yes token and the yes ask when
\* its trigger (the velocity in reactive mode, the interval change in edge
\* mode) is positive, and not bet_up, the no token and the no ask when it is
\* negative; its asset is the asset of the market it was evaluated against,
\* and check_all_opportunities gives at most one signal per asset
C39_SideConsistency ==
  /\ signals # None =>
       /\ \A i \in Indices(signals[1]) :
            LET s == signals[1][i]
            IN /\ market[s.asset] # None
               /\ SideOf(s, market[s.asset][1], StrongerVelocity(price_history[s.asset], now))
       /\ \A i, j \in Indices(signals[1]) : i # j => signals[1][i].asset # signals[1][j].asset
  /\ \A i \in Indices(EdgeSignal) :
       /\ legacy_market # None
       /\ SideOf(EdgeSignal[i], legacy_market[1], price_change_pct(EdgeSignal[i].asset))

\* one tick gave an up signal and a down signal, and the edge mode bets down
C39_BothSidesAtOnce ==
  /\ signals # None /\ Len(signals[1]) = 2
  /\ signals[1][1].bet_up # signals[1][2].bet_up
  /\ \E i \in Indices(EdgeSignal) : ~EdgeSignal[i].bet_up
====
